---- MODULE Spec2Model ----
(***************************************************************************)
(* Browser client of the disaster-management application: the session     *)
(* context (login / logout / restore), the role-based route guard          *)
(* (ProtectedRoute), the route table of App and the authentication pages   *)
(* (PublicPage, LoginProcess, OTPVerification) that establish a session.   *)
(***************************************************************************)
EXTENDS Integers, Sequences, FiniteSets, TLC

(* ----------------------------- bounds ---------------------------------- *)

\* user ids handed out by the backend: 1..MaxUserId
MaxUserId == 1
\* bearer tokens issued by the backend: 1..MaxToken
MaxToken == 2
\* Google identity tokens the OAuth provider returns: 1..MaxGoogleToken
MaxGoogleToken == 1
\* requests of one kind that may be outstanding at the same time
MaxInflight == 1
\* redirects followed while one navigation is resolved
MaxRedirects == 3
\* requests a page has outstanding when the user starts another one
MaxRequests == 1
\* status requests of one poll that await their response at the same time
MaxPolls == 2

(* ----------------------------- data model ------------------------------ *)

Roles == {"citizen", "officer", "admin"}

\* the account with id i, as the backend describes it
EmailOf(i) == "u" \o ToString(i) \o "@b.com"
NameOf(i) == "User " \o ToString(i)
PictureOf(i) == "/pic/" \o ToString(i) \o ".png"
Emails == {EmailOf(i) : i \in 1..MaxUserId}

\* UserProfile: { id, name, email, role, profile_picture }, the snapshot the
\* backend returns with a successful login or verification
UserProfile ==
  {[id |-> i, name |-> NameOf(i), email |-> EmailOf(i), role |-> r,
    profile_picture |-> PictureOf(i)] : i \in 1..MaxUserId, r \in Roles}

Tokens == {"jwt" \o ToString(i) : i \in 1..MaxToken}
GoogleTokens == {"g" \o ToString(i) : i \in 1..MaxGoogleToken}

\* JavaScript null / undefined, for the values that are strings
Null == "null"
\* user = null: no profile; user?.role is then undefined
NoUser ==
  [id |-> 0, name |-> Null, email |-> Null, role |-> "undefined",
   profile_picture |-> Null]

\* Session: { user, token, loading }
Session == [token : Tokens \cup {Null}, user : UserProfile \cup {NoUser}, loading : BOOLEAN]

\* the durable client-side storage: the keys token and user
EmptyStorage == [token |-> Null, user |-> NoUser]
StoredSessions == {EmptyStorage} \cup [token : Tokens, user : UserProfile]

\* the transient (per-tab) storage: the keys google_token and verify_email
EmptyTransient == [google_token |-> Null, verify_email |-> Null]

(* ----------------------------- state ----------------------------------- *)

VARIABLES
  session,      \* the process-wide session value of the auth context
  durable,      \* durable client-side storage (survives a reload)
  transient,    \* transient storage (google_token, verify_email)
  location,     \* the router's current path
  navState,     \* location.state.googleToken of the current history entry
  view,         \* what the router renders at location
  guardProps,   \* allowedRoles of a ProtectedRoute rendered on its own
  guardResult,  \* the element that ProtectedRoute returns
  loginReqs,    \* POST /auth/login requests awaiting their response
  otpEmail,     \* OTPVerification: email state
  otp,          \* OTPVerification: the six otp cells
  otpLoading,   \* OTPVerification: loading state
  verifyReqs,   \* POST /auth/verify-otp requests of the mounted OTP page
  verifyOrphans,\* POST /auth/verify-otp requests whose page has unmounted
  ctxOps,       \* history: the latest operation called on the auth context
  lastLogin,    \* history: what the latest login() or logout() left, and which it was
  page,         \* the useState values of the page component that is mounted
  requests,     \* the HTTP requests of the page components awaiting their response
  timers,       \* the interval timers that are set
  toast         \* the notification of the latest step, when a form handler
                \* rejected its input in that step (Null otherwise)

ctxVars == <<session, durable, ctxOps, lastLogin>>
guardVars == <<guardProps, guardResult>>
routeVars == <<location, navState, view>>
otpVars == <<otpEmail, otp, otpLoading, verifyReqs, verifyOrphans>>
uiVars == <<page, requests, timers, toast>>
vars == <<session, durable, transient, location, navState, view, guardProps,
          guardResult, loginReqs, otpEmail, otp, otpLoading, verifyReqs,
          verifyOrphans, ctxOps, lastLogin, page, requests, timers, toast>>

(* ----------------------------- auth context ---------------------------- *)

\* The context: the session, the durable storage its operations write, and
\* the record of the calls made on it.
Ctx(s, d, ops, ll) == [session |-> s, durable |-> d, ops |-> ops, lastLogin |-> ll]

CurCtx == Ctx(session, durable, ctxOps, lastLogin)

\* the call that is recorded; a logout() that follows a logout() is told apart
Called(c, name) ==
  IF name = "logout" /\ c.ops \in {"logout", "logout again"} THEN "logout again"
  ELSE name

\* what the storage should hold after a login() or a logout(), with its origin
Left(newToken, userData, origin) == [token |-> newToken, user |-> userData, by |-> origin]

\* isAuthenticated derived with the test negated
isAuthenticated_negated(s) == s.token = Null

\* isAuthenticated: derived boolean = token present
isAuthenticated(s) == s.token # Null

\* login that sets the session and leaves durable storage alone
login_memoryOnly(c, newToken, userData) ==
  [session |-> [c.session EXCEPT !.token = newToken, !.user = userData],
   durable |-> c.durable,
   ops |-> Called(c, "login"),
   lastLogin |-> Left(newToken, userData, "login")]

\* login(token, user): stores both in the session and in durable storage
login(c, newToken, userData) ==
  [session |-> [c.session EXCEPT !.token = newToken, !.user = userData],
   durable |-> [token |-> newToken, user |-> userData],
   ops |-> Called(c, "login"),
   lastLogin |-> Left(newToken, userData, "login")]

\* logout that keeps the profile it finds in the session for the next visit
logout_remembersUser(c) ==
  [session |-> [c.session EXCEPT !.token = Null, !.user = NoUser],
   durable |-> [token |-> Null, user |-> c.session.user],
   ops |-> Called(c, "logout"),
   lastLogin |-> Left(Null, NoUser, "logout")]

\* logout(): clears the session and durable storage
logout(c) ==
  [session |-> [c.session EXCEPT !.token = Null, !.user = NoUser],
   durable |-> EmptyStorage,
   ops |-> Called(c, "logout"),
   lastLogin |-> Left(Null, NoUser, "logout")]

\* restore(): reads durable storage; a stored token authenticates at once
restore(c) ==
  [session |-> IF c.durable.token # Null
               THEN [token |-> c.durable.token, user |-> c.durable.user,
                     loading |-> FALSE]
               ELSE [token |-> Null, user |-> NoUser, loading |-> FALSE],
   durable |-> c.durable,
   ops |-> Called(c, "restore"),
   lastLogin |-> c.lastLogin]

\* the session a freshly loaded page starts with, before restore() has run
FreshSession == [token |-> Null, user |-> NoUser, loading |-> TRUE]

\* a reload of the page: the context is built anew, the storage stays
reload(c) == [c EXCEPT !.session = FreshSession, !.ops = "reload"]

(* ----------------------------- route guard ----------------------------- *)

NotRendered == [kind |-> "none", to |-> ""]
Placeholder == [kind |-> "placeholder", to |-> ""]
Navigate(to) == [kind |-> "navigate", to |-> to]
Children == [kind |-> "children", to |-> ""]

\* user?.role inside a template literal
RoleText(u) == IF u = NoUser THEN "undefined" ELSE u.role

\* the redirect target of a role mismatch fixed to the citizen's dashboard
DashboardPath_citizenOnly(role) == "/citizen-dashboard"

\* `/${user?.role}-dashboard`
DashboardPath(role) == "/" \o role \o "-dashboard"

\* ProtectedRoute with the role check made before the authentication check
ProtectedRoute_roleCheckFirst(s, allowedRoles) ==
  IF s.loading THEN Placeholder
  ELSE IF Cardinality(allowedRoles) > 0 /\ RoleText(s.user) \notin allowedRoles
       THEN Navigate(DashboardPath(RoleText(s.user)))
  ELSE IF s.token = Null THEN Navigate("/")
  ELSE Children

\* ProtectedRoute sending a role mismatch to an error page
ProtectedRoute_unauthorizedPage(s, allowedRoles) ==
  IF s.loading THEN Placeholder
  ELSE IF s.token = Null THEN Navigate("/")
  ELSE IF Cardinality(allowedRoles) > 0 /\ RoleText(s.user) \notin allowedRoles
       THEN Navigate("/unauthorized")
  ELSE Children

\* ProtectedRoute without the allowedRoles.length > 0 test
ProtectedRoute_noLengthTest(s, allowedRoles) ==
  IF s.loading THEN Placeholder
  ELSE IF s.token = Null THEN Navigate("/")
  ELSE IF RoleText(s.user) \notin allowedRoles
       THEN Navigate(DashboardPath(RoleText(s.user)))
  ELSE Children

\* ProtectedRoute with the authentication check made before the loading check
ProtectedRoute_authCheckFirst(s, allowedRoles) ==
  IF s.token = Null THEN Navigate("/")
  ELSE IF s.loading THEN Placeholder
  ELSE IF Cardinality(allowedRoles) > 0 /\ RoleText(s.user) \notin allowedRoles
       THEN Navigate(DashboardPath(RoleText(s.user)))
  ELSE Children

\* ProtectedRoute letting a role mismatch fall back to the landing page
ProtectedRoute_mismatchToLanding(s, allowedRoles) ==
  IF s.loading THEN Placeholder
  ELSE IF s.token = Null THEN Navigate("/")
  ELSE IF Cardinality(allowedRoles) > 0 /\ RoleText(s.user) \notin allowedRoles
       THEN Navigate("/")
  ELSE Children

\* ProtectedRoute holding the placeholder until a session is present
ProtectedRoute_waitsForSession(s, allowedRoles) ==
  IF s.loading \/ s.token = Null THEN Placeholder
  ELSE IF Cardinality(allowedRoles) > 0 /\ RoleText(s.user) \notin allowedRoles
       THEN Navigate(DashboardPath(RoleText(s.user)))
  ELSE Children

\* ProtectedRoute({ children, allowedRoles }) over the useAuth() value
ProtectedRoute(s, allowedRoles) ==
  IF s.loading THEN Placeholder
  ELSE IF ~isAuthenticated(s) THEN Navigate("/")
  ELSE IF Cardinality(allowedRoles) > 0 /\ RoleText(s.user) \notin allowedRoles
       THEN Navigate(DashboardPath(RoleText(s.user)))
  ELSE Children

(* ----------------------------- route table ----------------------------- *)

PublicRoutes ==
  [path \in {"/", "/role-selection", "/verify-otp", "/login-process", "/no-fly-zone"} |->
     CASE path = "/" -> "PublicPage"
       [] path = "/role-selection" -> "RoleSelection"
       [] path = "/verify-otp" -> "OTPVerification"
       [] path = "/login-process" -> "LoginProcess"
       [] path = "/no-fly-zone" -> "NoFlyZone"]

ProtectedRoutes ==
  [path \in {"/citizen-dashboard", "/officer-dashboard", "/admin-dashboard",
             "/drone-permit-form", "/my-permits", "/permit-review",
             "/disaster-dashboard", "/video-analysis"} |->
     CASE path = "/citizen-dashboard" -> [allowedRoles |-> {"citizen"}, page |-> "CitizenDashboard"]
       [] path = "/officer-dashboard" -> [allowedRoles |-> {"officer"}, page |-> "OfficerDashboard"]
       [] path = "/admin-dashboard" -> [allowedRoles |-> {"admin"}, page |-> "AdminDashboard"]
       [] path = "/drone-permit-form" -> [allowedRoles |-> {"citizen"}, page |-> "DronePermitForm"]
       [] path = "/my-permits" -> [allowedRoles |-> {"citizen"}, page |-> "MyPermits"]
       [] path = "/permit-review" -> [allowedRoles |-> {"officer", "admin"}, page |-> "PermitReview"]
       [] path = "/disaster-dashboard" -> [allowedRoles |-> {"citizen"}, page |-> "LiveDashboard"]
       [] path = "/video-analysis" -> [allowedRoles |-> {"citizen", "officer", "admin"}, page |-> "VideoAnalysis"]]

\* a path no <Route> names; it falls to the catch-all route
UnknownPaths == {"/profile"}
Paths == DOMAIN PublicRoutes \cup DOMAIN ProtectedRoutes \cup UnknownPaths

\* The element <Routes> yields for a path under session s: a page to show, the
\* guard's placeholder, or a <Navigate> to follow.
RouteElement(path, s) ==
  IF path \in DOMAIN PublicRoutes THEN [kind |-> "page", to |-> PublicRoutes[path]]
  ELSE IF path \in DOMAIN ProtectedRoutes
    THEN LET r == ProtectedRoute(s, ProtectedRoutes[path].allowedRoles)
         IN IF r.kind = "children"
            THEN [kind |-> "page", to |-> ProtectedRoutes[path].page]
            ELSE r
  ELSE Navigate("/")

\* Follow <Navigate replace> elements until a page or the placeholder renders.
RECURSIVE Resolve(_, _, _)
Resolve(path, s, fuel) ==
  LET el == RouteElement(path, s)
  IN IF el.kind = "page"
       THEN [location |-> path, view |-> el.to, hops |-> MaxRedirects - fuel]
     ELSE IF el.kind = "placeholder"
       THEN [location |-> path, view |-> "placeholder", hops |-> MaxRedirects - fuel]
     ELSE IF fuel = 0
       THEN [location |-> path, view |-> "redirecting", hops |-> MaxRedirects]
     ELSE Resolve(el.to, s, fuel - 1)

(* ----------------------------- pages ----------------------------------- *)

EmptyOtp == <<"", "", "", "", "", "">>

\* The state of the mounted pages and of the requests they started.
PageState(lr, em, cells, ld, vr, vo) ==
  [loginReqs |-> lr, otpEmail |-> em, otp |-> cells, otpLoading |-> ld,
   verifyReqs |-> vr, verifyOrphans |-> vo]

CurPages == PageState(loginReqs, otpEmail, otp, otpLoading, verifyReqs, verifyOrphans)

NoPages == PageState(0, "", EmptyOtp, FALSE, 0, 0)

\* Unmounting OTPVerification drops its state; its requests stay outstanding.
Unmount(oldView, pg) ==
  IF oldView = "OTPVerification"
  THEN PageState(pg.loginReqs, "", EmptyOtp, FALSE, 0, pg.verifyOrphans + pg.verifyReqs)
  ELSE pg

\* LoginProcess: useEffect(() => { handleLogin(); }, []) up to its await
LoginProcessMount(nstate, tr, pg) ==
  LET googleToken == IF nstate # Null THEN nstate ELSE tr.google_token
  IN IF googleToken = Null
     THEN [location |-> "/", navState |-> Null, view |-> "PublicPage", pages |-> pg]
     ELSE [location |-> "/login-process", navState |-> nstate, view |-> "LoginProcess",
           pages |-> [pg EXCEPT !.loginReqs = @ + 1]]

\* OTPVerification: the effect that reads verify_email on mount
OTPVerificationMount(nstate, tr, pg) ==
  LET storedEmail == tr.verify_email
  IN IF storedEmail = Null
     THEN [location |-> "/", navState |-> Null, view |-> "PublicPage", pages |-> pg]
     ELSE [location |-> "/verify-otp", navState |-> nstate, view |-> "OTPVerification",
           pages |-> [pg EXCEPT !.otpEmail = storedEmail]]

\* The router moves to path (with history state nstate) under session s: the
\* guards' redirects are followed, the page that was shown unmounts and the
\* page that is reached mounts and runs its effects.
Land(path, nstate, s, tr, curLoc, curView, pg) ==
  LET r == Resolve(path, s, MaxRedirects)
      st == IF r.hops > 0 THEN Null ELSE nstate
  IN IF r.location = curLoc /\ r.view = curView
       THEN [location |-> curLoc, navState |-> st, view |-> curView, pages |-> pg]
     ELSE IF r.view = "LoginProcess" THEN LoginProcessMount(st, tr, Unmount(curView, pg))
     ELSE IF r.view = "OTPVerification" THEN OTPVerificationMount(st, tr, Unmount(curView, pg))
     ELSE [location |-> r.location, navState |-> st, view |-> r.view,
           pages |-> Unmount(curView, pg)]

\* the outstanding requests stay within the model's bound
Bounded(l) ==
  /\ l.pages.loginReqs <= MaxInflight
  /\ l.pages.verifyReqs + l.pages.verifyOrphans <= MaxInflight

\* the router and page variables take the values of a landing
Show(l) ==
  /\ location' = l.location
  /\ navState' = l.navState
  /\ view' = l.view
  /\ loginReqs' = l.pages.loginReqs
  /\ otpEmail' = l.pages.otpEmail
  /\ otp' = l.pages.otp
  /\ otpLoading' = l.pages.otpLoading
  /\ verifyReqs' = l.pages.verifyReqs
  /\ verifyOrphans' = l.pages.verifyOrphans

\* a ProtectedRoute that is rendered renders again when the session changes
Rerender(s) ==
  /\ guardProps' = guardProps
  /\ guardResult' = IF guardResult = NotRendered THEN NotRendered
                    ELSE ProtectedRoute(s, guardProps)

(* ----------------------------- HTTP adapter ---------------------------- *)

Bearer(token) == "Bearer " \o token

\* api.get / api.post / api.delete: a request through the adapter, which
\* attaches the stored bearer token, if there is one. op names the function
\* that awaits the response.
api(op, method, url, d) ==
  [op |-> op, method |-> method, url |-> url, via |-> "api",
   authorization |-> IF d.token # Null THEN Bearer(d.token) ELSE Null,
   mounted |-> TRUE]

\* a URL the browser loads for an element (<video src>, <img src>,
\* <iframe src>, <a href download>): no header is attached
element(op, url) ==
  [op |-> op, method |-> "GET", url |-> url, via |-> "element",
   authorization |-> Null, mounted |-> TRUE]

(* ----------------------------- page components ------------------------- *)

\* the ids the backend gives the videos that are uploaded
VideoIds == {7, 8}

\* the four documents of a permit application
Documents == {"purpose_letter", "purchase_bill", "drone_image", "citizenship_doc"}

\* the officer fields handleReviewSubmit asks for
OfficerFields ==
  {"officer_name", "officer_designation", "officer_organization", "officer_email"}

\* the required inputs of the permit form, by the step that renders them
StepFields ==
  [step \in 1..4 |->
    CASE step = 1 -> {"manufacturer", "model", "serial_number", "manufactured_year",
                      "drone_type", "max_payload", "color", "retailer_name"}
      [] step = 2 -> {"full_name", "citizenship_passport_no", "date_of_birth",
                      "phone_number", "email_address", "username"}
      [] step = 3 -> {"country", "province", "district", "municipality", "ward_no"}
      [] step = 4 -> {}]

RequiredFields == StepFields[1] \cup StepFields[2] \cup StepFields[3]

\* a page component without state of its own
Stateless == [stateless |-> TRUE]

\* the useState initial values of each page component, after its mount
\* effects have run (u: the user of the session). LoginProcess has one
\* state, loading, which nothing reads: it renders its spinner regardless.
InitialState(viewName, u) ==
  CASE viewName = "RoleSelection" ->
         [selectedRole |-> "", organizationCode |-> "", masterAdminCode |-> "",
          loading |-> FALSE]
    [] viewName = "OTPVerification" -> [resending |-> FALSE]
    [] viewName = "DronePermitForm" ->
         [currentStep |-> 1, loading |-> FALSE,
          formData |-> [name \in RequiredFields |->
                         IF name = "country" THEN "Nepal"
                         ELSE IF name = "email_address" /\ u # NoUser THEN u.email
                         ELSE ""],
          agrees_to_rules |-> FALSE,
          files |-> {}]
    [] viewName = "MyPermits" -> [loading |-> TRUE]
    [] viewName = "PermitReview" ->
         [permits |-> FALSE, loading |-> TRUE, selectedPermit |-> FALSE,
          showReviewModal |-> FALSE, showDocumentModal |-> FALSE,
          selectedDocument |-> "", reviewData |-> {}, reviewAction |-> "",
          submitting |-> FALSE]
    [] viewName = "VideoAnalysis" ->
         [selectedFile |-> FALSE, uploading |-> FALSE, loading |-> FALSE,
          activeTab |-> "upload", videos |-> {}, selectedVideo |-> 0,
          analysisData |-> 0]
    [] viewName = "LiveDashboard" -> [loading |-> TRUE]
    [] OTHER -> Stateless

\* the five fetches of LiveDashboard.fetchAllData
DashboardUrls ==
  {"/disasters/dashboard/stats", "/disasters/dashboard/recent-disasters?limit=100",
   "/disasters/dashboard/disaster-types",
   "/disasters/dashboard/location-hotspots?limit=15",
   "/disasters/dashboard/timeline?hours=24"}

\* the requests a page's mount effects make
MountRequests(viewName, d) ==
  CASE viewName = "MyPermits" -> {api("fetchPermits", "GET", "/permits/my-permits", d)}
    [] viewName = "PermitReview" ->
         {api("fetchPendingPermits", "GET", "/permits/pending", d)}
    [] viewName = "LiveDashboard" -> {api("fetchAllData", "GET", url, d) : url \in DashboardUrls}
    [] OTHER -> {}

\* an interval timer: the function that set it, the video it polls for (0:
\* none) and whether the component that set it is still mounted
Timer(op, id) == [op |-> op, id |-> id, mounted |-> TRUE]

\* the timers a page's mount effects set
MountTimers(viewName) ==
  IF viewName = "LiveDashboard" THEN {Timer("LiveDashboard", 0)} ELSE {}

\* the functions whose continuation acts beyond the state of their own
\* component: they navigate, write storage, set a timer or call the backend
\* again, also when their component has unmounted
ActsUnmounted ==
  {"RoleSelection.handleSubmit", "DronePermitForm.handleSubmit", "handleUpload",
   "pollProcessingStatus", "handleReviewSubmit", "deleteVideo"}

\* the page components' state, requests and timers, and the notification
Ui(pg, rq, tm, ts) == [page |-> pg, requests |-> rq, timers |-> tm, toast |-> ts]

CurUi == Ui(page, requests, timers, toast)

\* before anything has mounted
NoUi == Ui(Stateless, {}, {}, Null)

\* The mounted page unmounts: its state is gone and the effect cleanups run
\* (LiveDashboard clears its interval). A response that could only set the
\* state of the unmounted component has no effect and is left out; the other
\* requests and the timers nobody clears stay, without their component.
Leave(x) ==
  Ui(Stateless,
     {[r EXCEPT !.mounted = FALSE] : r \in {q \in x.requests : q.op \in ActsUnmounted}},
     {[t EXCEPT !.mounted = FALSE] : t \in {q \in x.timers : q.op # "LiveDashboard"}},
     x.toast)

\* A page mounts: its state is initial and its mount effects run.
Enter(viewName, s, d, x) ==
  Ui(InitialState(viewName, s.user),
     x.requests \cup MountRequests(viewName, d),
     x.timers \cup MountTimers(viewName),
     x.toast)

\* the page components after the router has landed on l
Mounted(l, s, d, x) ==
  IF l.location = location /\ l.view = view THEN x
  ELSE Enter(l.view, s, d, Leave(x))

ShowUi(x) ==
  /\ page' = x.page
  /\ requests' = x.requests
  /\ timers' = x.timers
  /\ toast' = x.toast

\* What a handler leaves behind: the context, the transient storage and the
\* path it navigates to (Null: it does not navigate).
Outcome(c, tr, to) == [ctx |-> c, transient |-> tr, to |-> to]

\* The handler's outcome becomes the next state: the session and the storages
\* are written, the router lands on the target (or stays), the page that is
\* left unmounts and the page that is reached mounts, and what is rendered is
\* rendered again under the new session. x: the page components as the
\* handler leaves them.
CommitUi(o, nstate, pg, x) ==
  /\ session' = o.ctx.session
  /\ durable' = o.ctx.durable
  /\ ctxOps' = o.ctx.ops
  /\ lastLogin' = o.ctx.lastLogin
  /\ transient' = o.transient
  /\ LET l == IF o.to = Null
              THEN Land(location, navState, o.ctx.session, o.transient, location, view, pg)
              ELSE Land(o.to, nstate, o.ctx.session, o.transient, location, view, pg)
     IN /\ Bounded(l)
        /\ Show(l)
        /\ ShowUi(Mounted(l, o.ctx.session, o.ctx.durable, x))
  /\ Rerender(o.ctx.session)

\* the same for a handler that leaves the page components as they are
Commit(o, nstate, pg) == CommitUi(o, nstate, pg, [CurUi EXCEPT !.toast = Null])

\* A step inside the mounted page: the page components change, the session,
\* the storages and the route stay.
PageStep(x) ==
  /\ ~session.loading
  /\ ShowUi(x)
  /\ UNCHANGED <<ctxVars, transient, routeVars, guardVars, loginReqs, otpVars>>

(* ----------------------------- start ----------------------------------- *)

\* A tab opened on any path: nothing in memory, restore() not yet run.
Init ==
  /\ session = FreshSession
  /\ durable \in StoredSessions
  /\ transient = EmptyTransient
  /\ \E path \in Paths :
       LET l == Land(path, Null, FreshSession, EmptyTransient, "", "", NoPages)
           x == Enter(l.view, FreshSession, durable, NoUi)
       IN /\ location = l.location
          /\ navState = l.navState
          /\ view = l.view
          /\ page = x.page
          /\ requests = x.requests
          /\ timers = x.timers
          /\ toast = x.toast
          /\ loginReqs = l.pages.loginReqs
          /\ otpEmail = l.pages.otpEmail
          /\ otp = l.pages.otp
          /\ otpLoading = l.pages.otpLoading
          /\ verifyReqs = l.pages.verifyReqs
          /\ verifyOrphans = l.pages.verifyOrphans
  /\ guardProps = {}
  /\ guardResult = NotRendered
  /\ ctxOps = "none"
  /\ lastLogin = Left(durable.token, durable.user, "stored")

(* ----------------------------- context actions ------------------------- *)

\* restore(), run once by the provider when the app starts
Restore ==
  /\ session.loading
  /\ Commit(Outcome(restore(CurCtx), transient, Null), Null, CurPages)

\* The browser reloads the page: memory is lost, both storages and the
\* history entry stay, and the app starts again at the same path.
Reload ==
  /\ ~session.loading
  /\ LET c == reload(CurCtx)
     IN /\ session' = c.session
        /\ durable' = c.durable
        /\ ctxOps' = c.ops
        /\ lastLogin' = c.lastLogin
        /\ LET l == Land(location, navState, c.session, transient, "", "", NoPages)
           IN Show(l) /\ ShowUi(Enter(l.view, c.session, c.durable, NoUi))
  /\ guardProps' = {}
  /\ guardResult' = NotRendered
  /\ UNCHANGED transient

\* login(token, user) called on the context by a consumer
Login(newToken, userData) ==
  /\ ~session.loading
  /\ Commit(Outcome(login(CurCtx, newToken, userData), transient, Null), Null, CurPages)

\* logout() called on the context by a consumer
Logout ==
  /\ ~session.loading
  /\ Commit(Outcome(logout(CurCtx), transient, Null), Null, CurPages)

(* ----------------------------- guard and router actions ---------------- *)

\* <ProtectedRoute allowedRoles={allowedRoles}> is rendered under the session
RenderProtectedRoute(allowedRoles) ==
  /\ guardProps' = allowedRoles
  /\ guardResult' = ProtectedRoute(session, allowedRoles)
  /\ toast' = Null
  /\ UNCHANGED <<ctxVars, transient, routeVars, loginReqs, otpVars, page, requests, timers>>

\* navigate(path) from a link, the browser's history or a page control
NavigateTo(path) ==
  /\ ~session.loading
  /\ Commit(Outcome(CurCtx, transient, path), Null, CurPages)

(* ----------------------------- the context and the guard --------------- *)

\* The session driven through the context's operations alone, with the guard
\* rendered under every session that results.
NextGuard ==
  \/ Restore
  \/ Reload
  \/ \E t \in Tokens, u \in UserProfile : Login(t, u)
  \/ Logout
  \/ \E a \in SUBSET Roles : RenderProtectedRoute(a)
  \/ \E p \in Paths : NavigateTo(p)

SpecGuard == Init /\ [][NextGuard]_vars

(* ----------------------------- the start of the app ------------------- *)

\* The app from its start: restore(), the context's other calls, navigation
\* and reloads of the page.
NextStart ==
  \/ Restore
  \/ Reload
  \/ \E t \in Tokens, u \in UserProfile : Login(t, u)
  \/ Logout
  \/ \E p \in Paths : NavigateTo(p)

\* The provider's mount effect calls restore() as soon as the app has
\* rendered: once it can run it does run.
SpecStart == Init /\ [][NextStart]_vars /\ WF_vars(Restore)

(* ----------------------------- backend responses ----------------------- *)

\* what POST /auth/login can answer: the verified user's session, a request
\* to verify the email, a body with neither flag, or an error that is thrown
LoginResponses ==
  {[kind |-> "success", access_token |-> t, user |-> u, email |-> Null] :
     t \in Tokens, u \in UserProfile}
  \cup {[kind |-> "needs_verification", access_token |-> Null, user |-> NoUser,
         email |-> e] : e \in Emails}
  \cup {[kind |-> k, access_token |-> Null, user |-> NoUser, email |-> Null] :
          k \in {"neither", "error"}}

\* what POST /auth/verify-otp can answer: success with the session, a body
\* with success = false, or an error that is thrown
VerifyResponses ==
  {[kind |-> "success", access_token |-> t, user |-> u] :
     t \in Tokens, u \in UserProfile}
  \cup {[kind |-> k, access_token |-> Null, user |-> NoUser] :
          k \in {"failure", "error"}}

(* ----------------------------- page handlers --------------------------- *)

\* pages that render <Navbar />
NavbarPages ==
  {"CitizenDashboard", "OfficerDashboard", "DronePermitForm", "MyPermits",
   "PermitReview", "LiveDashboard", "VideoAnalysis", "NoFlyZone"}

\* PublicPage.handleGoogleSuccess(googleToken)
handleGoogleSuccess(c, tr, googleToken, isRegister) ==
  Outcome(c, [tr EXCEPT !.google_token = googleToken],
          IF isRegister THEN "/role-selection" ELSE "/login-process")

GoogleSuccess(googleToken, isRegister) ==
  /\ ~session.loading
  /\ view = "PublicPage"
  /\ Commit(handleGoogleSuccess(CurCtx, transient, googleToken, isRegister),
            IF isRegister THEN Null ELSE googleToken, CurPages)

\* handleLogin that navigates to the dashboard without calling login()
handleLogin_navigateWithoutLogin(c, tr, response) ==
  IF response.kind = "success"
    THEN Outcome(c, tr, DashboardPath(response.user.role))
  ELSE IF response.kind = "needs_verification"
    THEN Outcome(c, [tr EXCEPT !.verify_email = response.email], "/verify-otp")
  ELSE IF response.kind = "error"
    THEN Outcome(c, tr, "/")
  ELSE Outcome(c, tr, Null)

\* handleLogin that ends the session when the login request fails
handleLogin_logoutOnError(c, tr, response) ==
  IF response.kind = "success"
    THEN Outcome(login(c, response.access_token, response.user), tr,
                 DashboardPath(response.user.role))
  ELSE IF response.kind = "needs_verification"
    THEN Outcome(c, [tr EXCEPT !.verify_email = response.email], "/verify-otp")
  ELSE IF response.kind = "error"
    THEN Outcome(logout(c), tr, "/")
  ELSE Outcome(c, tr, Null)

\* LoginProcess.handleLogin after its await: the response is handled
handleLogin(c, tr, response) ==
  IF response.kind = "success"
    THEN Outcome(login(c, response.access_token, response.user), tr,
                 DashboardPath(response.user.role))
  ELSE IF response.kind = "needs_verification"
    THEN Outcome(c, [tr EXCEPT !.verify_email = response.email], "/verify-otp")
  ELSE IF response.kind = "error"
    THEN Outcome(c, tr, "/")
  ELSE Outcome(c, tr, Null)

LoginResponse(response) ==
  /\ ~session.loading
  /\ loginReqs > 0
  /\ Commit(handleLogin(CurCtx, transient, response), Null,
            [CurPages EXCEPT !.loginReqs = @ - 1])

Digits == {"0", "1", "2", "3", "4", "5", "6", "7", "8", "9"}

\* the first n characters of a text (text.slice(0, n))
Slice(text, n) == SubSeq(text, 1, IF Len(text) < n THEN Len(text) ELSE n)

\* OTPVerification.handlePaste(e), the clipboard text as its characters
handlePaste(cells, text) ==
  LET pastedData == Slice(text, 6)
  IN IF ~(pastedData # <<>> /\ \A i \in 1..Len(pastedData) : pastedData[i] \in Digits)
     THEN cells
     ELSE Slice(pastedData \o EmptyOtp, 6)

\* clipboard texts: a whole code, a code with text after it, a partial code,
\* a text that is no code, nothing
Pasted ==
  {<<"7", "7", "7", "7", "7", "7">>, <<"1", "2", "3", "4", "5", "6", "7">>,
   <<"7", "7">>, <<"7", "x", "7", "7", "7", "7">>, <<>>}

Paste(text) ==
  /\ ~session.loading
  /\ view = "OTPVerification"
  /\ otp' = handlePaste(otp, text)
  /\ toast' = Null
  /\ UNCHANGED <<ctxVars, transient, routeVars, guardVars, loginReqs, otpEmail,
                 otpLoading, verifyReqs, verifyOrphans, page, requests, timers>>

\* otp.join('')
RECURSIVE Join(_)
Join(cells) == IF cells = <<>> THEN "" ELSE Head(cells) \o Join(Tail(cells))

\* OTPVerification.handleSubmit up to its await, from the enabled button
Submit ==
  /\ ~session.loading
  /\ view = "OTPVerification"
  /\ ~otpLoading
  /\ Len(Join(otp)) = 6
  /\ verifyReqs + verifyOrphans < MaxInflight
  /\ otpLoading' = TRUE
  /\ verifyReqs' = verifyReqs + 1
  /\ toast' = Null
  /\ UNCHANGED <<ctxVars, transient, routeVars, guardVars, loginReqs, otpEmail,
                 otp, verifyOrphans, page, requests, timers>>

\* handleSubmit calling login(response.access_token) without the user
handleSubmit_tokenOnly(c, tr, response) ==
  IF response.kind = "success"
    THEN Outcome(login(c, response.access_token, NoUser),
                 [tr EXCEPT !.google_token = Null, !.verify_email = Null],
                 DashboardPath(response.user.role))
  ELSE Outcome(c, tr, Null)

\* handleSubmit that stores the session and leaves the page where it is
handleSubmit_noNavigate(c, tr, response) ==
  IF response.kind = "success"
    THEN Outcome(login(c, response.access_token, response.user),
                 [tr EXCEPT !.google_token = Null, !.verify_email = Null],
                 Null)
  ELSE Outcome(c, tr, Null)

\* OTPVerification.handleSubmit after its await: session and storage effects
handleSubmit(c, tr, response) ==
  IF response.kind = "success"
    THEN Outcome(login(c, response.access_token, response.user),
                 [tr EXCEPT !.google_token = Null, !.verify_email = Null],
                 DashboardPath(response.user.role))
  ELSE Outcome(c, tr, Null)

\* the response reaches the page that sent the request
VerifyResponse(response) ==
  /\ ~session.loading
  /\ verifyReqs > 0
  /\ Commit(handleSubmit(CurCtx, transient, response), Null,
            [CurPages EXCEPT !.verifyReqs = @ - 1,
                             !.otp = IF response.kind = "error" THEN EmptyOtp ELSE @,
                             !.otpLoading = FALSE])

\* the response arrives after the page that sent the request has unmounted:
\* its state setters do nothing, login() and navigate() still act
VerifyOrphanResponse(response) ==
  /\ ~session.loading
  /\ verifyOrphans > 0
  /\ Commit(handleSubmit(CurCtx, transient, response), Null,
            [CurPages EXCEPT !.verifyOrphans = @ - 1])

\* getNavItems() that offers the officer the citizen's permit list
getNavItems_officerMyPermits(role) ==
  CASE role = "citizen" ->
         <<"/citizen-dashboard", "/drone-permit-form", "/my-permits", "/video-analysis",
           "/disaster-dashboard", "/profile">>
    [] role = "officer" ->
         <<"/officer-dashboard", "/my-permits", "/video-analysis", "/profile">>
    [] role = "admin" ->
         <<"/admin-dashboard", "/analytics", "/user-management", "/video-analysis",
           "/reports", "/profile">>
    [] OTHER -> <<>>

\* Navbar.getNavItems(): the paths of the navigation items of a role, in
\* their order
getNavItems(role) ==
  CASE role = "citizen" ->
         <<"/citizen-dashboard", "/drone-permit-form", "/my-permits", "/video-analysis",
           "/disaster-dashboard", "/profile">>
    [] role = "officer" ->
         <<"/officer-dashboard", "/permit-review", "/video-analysis", "/profile">>
    [] role = "admin" ->
         <<"/admin-dashboard", "/analytics", "/user-management", "/video-analysis",
           "/reports", "/profile">>
    [] OTHER -> <<>>

\* a navigation item of the Navbar is clicked (the logo is the first item)
NavbarLink(i) ==
  /\ ~session.loading
  /\ view \in NavbarPages
  /\ i \in DOMAIN getNavItems(RoleText(session.user))
  /\ Commit(Outcome(CurCtx, transient, getNavItems(RoleText(session.user))[i]), Null,
            CurPages)

\* handleLogout that navigates to "/" without calling logout()
handleLogout_navigateOnly(c, tr) == Outcome(c, tr, "/")

\* Navbar.handleLogout
handleLogout(c, tr) == Outcome(logout(c), tr, "/")

NavbarLogout ==
  /\ ~session.loading
  /\ view \in NavbarPages
  /\ Commit(handleLogout(CurCtx, transient), Null, CurPages)

\* AdminDashboard.handleLogout
adminHandleLogout(c, tr) == Outcome(logout(c), tr, "/")

AdminLogout ==
  /\ ~session.loading
  /\ view = "AdminDashboard"
  /\ Commit(adminHandleLogout(CurCtx, transient), Null, CurPages)

(* ----------------------------- the application ------------------------- *)

Next ==
  \/ Restore
  \/ Reload
  \/ \E p \in Paths : NavigateTo(p)
  \/ \E g \in GoogleTokens, r \in BOOLEAN : GoogleSuccess(g, r)
  \/ \E response \in LoginResponses : LoginResponse(response)
  \/ \E text \in Pasted : Paste(text)
  \/ Submit
  \/ \E response \in VerifyResponses : VerifyResponse(response)
  \/ \E response \in VerifyResponses : VerifyOrphanResponse(response)
  \/ NavbarLogout
  \/ AdminLogout

Spec == Init /\ [][Next]_vars

(* ----------------------------- requests and responses ------------------ *)

\* the user can start another request: fewer than MaxRequests are
\* outstanding at the adapter
CanRequest(x) == Cardinality({r \in x.requests : r.via = "api"}) < MaxRequests

\* a component sets its state: nothing happens once it has unmounted
SetState(r, x, pg) == IF r.mounted THEN [x EXCEPT !.page = pg] ELSE x

\* a request made on behalf of a component that may have unmounted
From(r, q) == [q EXCEPT !.mounted = r.mounted]

(* ----------------------------- VideoAnalysis --------------------------- *)

\* the URLs of a video: /video/status/{id}, /video/analysis/{id},
\* /video/delete/{id}
VideoUrl(what, videoId) == "/video/" \o what \o "/" \o ToString(videoId)
\* analysisData.video_urls: the processed videos the backend serves
StreamUrl(videoId, output) == VideoUrl("stream", videoId) \o "/" \o output

\* the <video src> elements of the analysis tab
VideoElements(pg) ==
  IF pg.activeTab = "analysis" /\ pg.selectedVideo # 0 /\ pg.analysisData # 0
  THEN {element("video", StreamUrl(pg.analysisData, output)) :
          output \in {"detection", "segmentation"}}
  ELSE {}

\* VideoAnalysis renders: the elements of the tab that shows are loaded; a
\* download that was started is the browser's from then on
RenderVideo(x) ==
  [x EXCEPT !.requests = {r \in @ : r.via = "api"} \cup VideoElements(x.page)]

\* fetchVideos()
fetchVideos(x, d) ==
  [x EXCEPT !.requests = @ \cup {api("fetchVideos", "GET", "/video/list", d)}]

\* handleUpload() up to its await
handleUpload_notBusy(x, d) ==
  IF ~x.page.selectedFile
  THEN [x EXCEPT !.toast = "Please select a video file"]
  ELSE [x EXCEPT !.requests = @ \cup {api("handleUpload", "POST", "/video/upload", d)}]

handleUpload(x, d) ==
  IF ~x.page.selectedFile
  THEN [x EXCEPT !.toast = "Please select a video file"]
  ELSE [x EXCEPT !.page.uploading = TRUE,
                 !.requests = @ \cup {api("handleUpload", "POST", "/video/upload", d)}]

\* pollProcessingStatus(videoId): the interval is set (and a timeout that
\* clears it after 30 minutes)
pollProcessingStatus(r, x, videoId) ==
  [x EXCEPT !.timers = @ \cup {From(r, Timer("pollProcessingStatus", videoId))}]

\* clearInterval(pollInterval)
clearPoll(x, videoId) ==
  [x EXCEPT !.timers = {t \in @ : ~(t.op = "pollProcessingStatus" /\ t.id = videoId)}]

\* what the backend answers to a request of VideoAnalysis, when the videos
\* it has are ids
VideoAnswers(r, ids) ==
  CASE r.op = "fetchVideos" ->
         {[kind |-> "ok", videos |-> vs] : vs \in SUBSET ids}
         \cup {[kind |-> "error"]}
    [] r.op = "handleUpload" ->
         {[kind |-> "ok", video_id |-> v] : v \in ids} \cup {[kind |-> "error"]}
    [] r.op = "pollProcessingStatus" ->
         {[kind |-> "ok", status |-> st] : st \in {"completed", "failed", "processing"}}
         \cup {[kind |-> "error"]}
    [] r.op \in {"viewAnalysis", "deleteVideo"} -> {[kind |-> "ok"], [kind |-> "error"]}
    [] OTHER -> {}

\* the video a request is about, read from its URL
VideoOf(r) == CHOOSE v \in VideoIds : r.url \in {VideoUrl("status", v), VideoUrl("analysis", v), VideoUrl("delete", v)}

\* VideoContinue whose 'failed' branch leaves the interval set
VideoContinue_failedKeepsPolling(r, a, x, d) ==
  CASE r.op = "fetchVideos" ->
         IF a.kind = "ok" THEN SetState(r, x, [x.page EXCEPT !.videos = a.videos]) ELSE x
    [] r.op = "handleUpload" ->
         IF a.kind = "ok"
         THEN LET y == pollProcessingStatus(r, x, a.video_id)
              IN SetState(r, y, [y.page EXCEPT !.selectedFile = FALSE, !.uploading = FALSE])
         ELSE SetState(r, x, [x.page EXCEPT !.uploading = FALSE])
    [] r.op = "pollProcessingStatus" ->
         IF a.kind = "error" THEN clearPoll(x, VideoOf(r))
         ELSE IF a.status = "completed"
           THEN LET y == [clearPoll(x, VideoOf(r)) EXCEPT
                            !.toast = "Video processing completed!",
                            !.requests = @ \cup {From(r, api("fetchVideos", "GET", "/video/list", d))}]
                IN SetState(r, y, [y.page EXCEPT !.activeTab = "history"])
         ELSE IF a.status = "failed"
           THEN [x EXCEPT !.toast = "Video processing failed"]
         ELSE x
    [] r.op = "viewAnalysis" ->
         IF a.kind = "ok"
         THEN SetState(r, x, [x.page EXCEPT !.analysisData = VideoOf(r),
                                            !.activeTab = "analysis", !.loading = FALSE])
         ELSE SetState(r, x, [x.page EXCEPT !.loading = FALSE])
    [] r.op = "deleteVideo" ->
         IF a.kind = "ok"
         THEN [x EXCEPT !.requests = @ \cup {From(r, api("fetchVideos", "GET", "/video/list", d))}]
         ELSE x

\* the functions of VideoAnalysis after their await
VideoContinue(r, a, x, d) ==
  CASE r.op = "fetchVideos" ->
         IF a.kind = "ok" THEN SetState(r, x, [x.page EXCEPT !.videos = a.videos]) ELSE x
    [] r.op = "handleUpload" ->
         IF a.kind = "ok"
         THEN LET y == pollProcessingStatus(r, x, a.video_id)
              IN SetState(r, y, [y.page EXCEPT !.selectedFile = FALSE, !.uploading = FALSE])
         ELSE SetState(r, x, [x.page EXCEPT !.uploading = FALSE])
    [] r.op = "pollProcessingStatus" ->
         IF a.kind = "error" THEN clearPoll(x, VideoOf(r))
         ELSE IF a.status = "completed"
           THEN LET y == [clearPoll(x, VideoOf(r)) EXCEPT
                            !.toast = "Video processing completed!",
                            !.requests = @ \cup {From(r, api("fetchVideos", "GET", "/video/list", d))}]
                IN SetState(r, y, [y.page EXCEPT !.activeTab = "history"])
         ELSE IF a.status = "failed"
           THEN [clearPoll(x, VideoOf(r)) EXCEPT !.toast = "Video processing failed"]
         ELSE x
    [] r.op = "viewAnalysis" ->
         IF a.kind = "ok"
         THEN SetState(r, x, [x.page EXCEPT !.analysisData = VideoOf(r),
                                            !.activeTab = "analysis", !.loading = FALSE])
         ELSE SetState(r, x, [x.page EXCEPT !.loading = FALSE])
    [] r.op = "deleteVideo" ->
         IF a.kind = "ok"
         THEN [x EXCEPT !.requests = @ \cup {From(r, api("fetchVideos", "GET", "/video/list", d))}]
         ELSE x

\* setActiveTab(tab), with the effect on [activeTab] that fetches the list
\* for the history tab; the button of the analysis tab shows once a video
\* is selected
setActiveTab(tab) ==
  /\ view = "VideoAnalysis"
  /\ tab = "analysis" => page.selectedVideo # 0
  /\ tab # page.activeTab
  /\ LET y == [CurUi EXCEPT !.toast = Null, !.page.activeTab = tab]
     IN PageStep(RenderVideo(IF tab = "history" THEN fetchVideos(y, durable) ELSE y))

\* handleFileSelect(event): no file, a file that is no video and a video of
\* more than 500 MB are not taken
handleFileSelect(file) ==
  /\ view = "VideoAnalysis"
  /\ page.activeTab = "upload"
  /\ PageStep(RenderVideo([CurUi EXCEPT !.toast = Null,
        !.page.selectedFile = IF file = "flood.mp4" THEN TRUE ELSE @]))

\* the upload button, or the click event on it
Upload ==
  /\ view = "VideoAnalysis"
  /\ page.activeTab = "upload"
  /\ ~page.uploading
  /\ CanRequest(CurUi)
  /\ PageStep(RenderVideo(handleUpload([CurUi EXCEPT !.toast = Null], durable)))

\* viewAnalysis(video) from the history tab
ViewAnalysis(videoId) ==
  /\ view = "VideoAnalysis"
  /\ page.activeTab = "history"
  /\ videoId \in page.videos
  /\ CanRequest(CurUi)
  /\ PageStep(RenderVideo([CurUi EXCEPT !.toast = Null, !.page.loading = TRUE,
                 !.page.selectedVideo = videoId,
                 !.requests = @ \cup {api("viewAnalysis", "GET", VideoUrl("analysis", videoId), durable)}]))

\* deleteVideo(videoId), confirmed
DeleteVideo(videoId) ==
  /\ view = "VideoAnalysis"
  /\ page.activeTab = "history"
  /\ videoId \in page.videos
  /\ CanRequest(CurUi)
  /\ PageStep(RenderVideo([CurUi EXCEPT !.toast = Null,
                 !.requests = @ \cup {api("deleteVideo", "DELETE", VideoUrl("delete", videoId), durable)}]))

\* downloadVideo(url, filename): a link to the URL is clicked
DownloadVideo(output) ==
  /\ view = "VideoAnalysis"
  /\ page.activeTab = "analysis"
  /\ page.selectedVideo # 0
  /\ page.analysisData # 0
  /\ PageStep([RenderVideo(CurUi) EXCEPT !.toast = Null,
                 !.requests = @ \cup {element("downloadVideo", StreamUrl(page.selectedVideo, output))}])

\* the Back to History button of the analysis view
BackToHistory ==
  /\ view = "VideoAnalysis"
  /\ page.activeTab = "analysis"
  /\ page.selectedVideo # 0
  /\ page.analysisData # 0
  /\ PageStep(RenderVideo(fetchVideos([CurUi EXCEPT !.toast = Null,
                 !.page.activeTab = "history", !.page.selectedVideo = 0,
                 !.page.analysisData = 0], durable)))

\* the interval of pollProcessingStatus fires: one more status request,
\* whether or not the earlier ones have been answered (tick tells the
\* requests of one poll apart; at most polls of them are outstanding)
PollTick(t, polls) ==
  /\ t \in timers
  /\ t.op = "pollProcessingStatus"
  /\ LET status == From(t, api("pollProcessingStatus", "GET", VideoUrl("status", t.id), durable))
         free == {k \in 1..polls : (status @@ [tick |-> k]) \notin requests}
     IN /\ free # {}
        /\ PageStep([CurUi EXCEPT !.toast = Null,
              !.requests = @ \cup {status @@ [tick |-> CHOOSE k \in free : \A j \in free : k <= j]}])

\* 30 minutes after the upload the timeout clears the interval
PollCeiling(t) ==
  /\ t \in timers
  /\ t.op = "pollProcessingStatus"
  /\ PageStep([CurUi EXCEPT !.toast = Null, !.timers = @ \ {t}])

\* the backend answers a request of VideoAnalysis; an upload gets an id
\* that no other video has
VideoResponse(r, a) ==
  /\ r \in requests
  /\ a \in VideoAnswers(r, VideoIds)
  /\ (r.op = "handleUpload" /\ a.kind = "ok") =>
       /\ \A t \in timers : t.id # a.video_id
       /\ \A q \in requests : q.url \notin {VideoUrl(what, a.video_id) :
                                                what \in {"status", "analysis", "delete"}}
       /\ view = "VideoAnalysis" =>
            a.video_id \notin page.videos \cup {page.selectedVideo, page.analysisData}
  /\ LET x == VideoContinue(r, a, [CurUi EXCEPT !.toast = Null, !.requests = @ \ {r}], durable)
     IN PageStep(IF view = "VideoAnalysis" THEN RenderVideo(x) ELSE x)

(* ----------------------------- LiveDashboard --------------------------- *)

\* the interval of LiveDashboard fires: fetchStats() and fetchRecentDisasters()
LiveTick(t) ==
  /\ t \in timers
  /\ t.op = "LiveDashboard"
  /\ PageStep([CurUi EXCEPT !.toast = Null,
        !.requests = @ \cup
          {From(t, api("fetchStats", "GET", "/disasters/dashboard/stats", durable)),
           From(t, api("fetchRecentDisasters", "GET",
                       "/disasters/dashboard/recent-disasters?limit=100", durable))}])

\* a fetch of LiveDashboard is answered, with data or an error that the
\* fetch catches; fetchAllData clears loading when its five fetches are done
LiveResponse(r) ==
  /\ r \in requests
  /\ r.op \in {"fetchAllData", "fetchStats", "fetchRecentDisasters"}
  /\ LET x == [CurUi EXCEPT !.toast = Null, !.requests = @ \ {r}]
     IN PageStep(IF r.op = "fetchAllData" /\ ~\E q \in x.requests : q.op = "fetchAllData"
                 THEN SetState(r, x, [x.page EXCEPT !.loading = FALSE])
                 ELSE x)

(* ----------------------------- RoleSelection --------------------------- *)

\* RoleSelection.handleSubmit that registers without looking for google_token
RoleSelection_handleSubmit_noTokenCheck(x, tr, d) ==
  LET pg == x.page
  IN IF pg.selectedRole = ""
       THEN [ui |-> [x EXCEPT !.toast = "Please select a role"], to |-> Null]
     ELSE IF pg.selectedRole = "officer" /\ pg.organizationCode = ""
       THEN [ui |-> [x EXCEPT !.toast = "Organization code is required for officers"], to |-> Null]
     ELSE IF pg.selectedRole = "admin" /\ pg.masterAdminCode = ""
       THEN [ui |-> [x EXCEPT !.toast = "Master admin code is required for admins"], to |-> Null]
     ELSE [ui |-> [x EXCEPT !.page.loading = TRUE,
                     !.requests = @ \cup {api("RoleSelection.handleSubmit", "POST",
                                               "/auth/register", d)}],
           to |-> Null]

\* RoleSelection.handleSubmit(e) up to its await: the page components as it
\* leaves them (ui) and the path it navigates to (to; Null: none). Without
\* google_token it navigates to "/" (setLoading(true) and the finally's
\* setLoading(false) come to nothing).
RoleSelection_handleSubmit(x, tr, d) ==
  LET pg == x.page
  IN IF pg.selectedRole = ""
       THEN [ui |-> [x EXCEPT !.toast = "Please select a role"], to |-> Null]
     ELSE IF pg.selectedRole = "officer" /\ pg.organizationCode = ""
       THEN [ui |-> [x EXCEPT !.toast = "Organization code is required for officers"], to |-> Null]
     ELSE IF pg.selectedRole = "admin" /\ pg.masterAdminCode = ""
       THEN [ui |-> [x EXCEPT !.toast = "Master admin code is required for admins"], to |-> Null]
     ELSE IF tr.google_token = Null
       THEN [ui |-> [x EXCEPT !.toast = "Session expired. Please login again."], to |-> "/"]
     ELSE [ui |-> [x EXCEPT !.page.loading = TRUE,
                     !.requests = @ \cup {api("RoleSelection.handleSubmit", "POST",
                                               "/auth/register", d)}],
           to |-> Null]

\* what POST /auth/register can answer: success with the email, a body with
\* success = false, or an error that is thrown
RegisterResponses ==
  {[kind |-> "success", email |-> e] : e \in Emails}
  \cup {[kind |-> k, email |-> Null] : k \in {"failure", "error"}}

\* onClick={() => setSelectedRole(role.id)}
SelectRole(role) ==
  /\ view = "RoleSelection"
  /\ PageStep([CurUi EXCEPT !.toast = Null, !.page.selectedRole = role])

\* the code input that is rendered for the selected role is changed:
\* setOrganizationCode(value) or setMasterAdminCode(value)
SetCode(value) ==
  /\ view = "RoleSelection"
  /\ page.selectedRole \in {"officer", "admin"}
  /\ PageStep(IF page.selectedRole = "officer"
              THEN [CurUi EXCEPT !.toast = Null, !.page.organizationCode = value]
              ELSE [CurUi EXCEPT !.toast = Null, !.page.masterAdminCode = value])

\* the form of RoleSelection is submitted
RoleSubmit ==
  /\ ~session.loading
  /\ view = "RoleSelection"
  /\ ~page.loading
  /\ CanRequest(CurUi)
  /\ LET h == RoleSelection_handleSubmit([CurUi EXCEPT !.toast = Null], transient, durable)
     IN CommitUi(Outcome(CurCtx, transient, h.to), Null, CurPages, h.ui)

\* RoleSelection.handleSubmit after its await
RegisterResponse(r, response) ==
  /\ ~session.loading
  /\ r \in requests
  /\ r.op = "RoleSelection.handleSubmit"
  /\ LET x == [CurUi EXCEPT !.toast = Null, !.requests = @ \ {r}]
         y == SetState(r, x, [x.page EXCEPT !.loading = FALSE])
     IN IF response.kind = "success"
        THEN CommitUi(Outcome(CurCtx, [transient EXCEPT !.verify_email = response.email],
                              "/verify-otp"), Null, CurPages, y)
        ELSE CommitUi(Outcome(CurCtx, transient, Null), Null, CurPages, y)

(* ----------------------------- OTPVerification: the form --------------- *)

\* OTPVerification.handleSubmit(e) up to its await: whether the code is sent
OTPVerification_handleSubmit(cells) ==
  IF Len(Join(cells)) # 6
  THEN [send |-> FALSE, toast |-> "Please enter complete OTP"]
  ELSE [send |-> TRUE, toast |-> Null]

\* the form of OTPVerification is submitted, whatever the cells hold
SubmitOtp ==
  /\ ~session.loading
  /\ view = "OTPVerification"
  /\ ~otpLoading
  /\ verifyReqs + verifyOrphans < MaxInflight
  /\ LET h == OTPVerification_handleSubmit(otp)
     IN /\ toast' = h.toast
        /\ otpLoading' = h.send
        /\ verifyReqs' = IF h.send THEN verifyReqs + 1 ELSE verifyReqs
  /\ UNCHANGED <<ctxVars, transient, routeVars, guardVars, loginReqs, otpEmail,
                 otp, verifyOrphans, page, requests, timers>>

\* OTPVerification.handleChange(index, value): the input of a cell changes
\* to value, given as its characters (maxLength={1}: at most one)
OTPVerification_handleChange(index, value) ==
  /\ ~session.loading
  /\ view = "OTPVerification"
  /\ otp' = IF \A i \in 1..Len(value) : value[i] \in Digits
            THEN [otp EXCEPT ![index] = Join(value)]
            ELSE otp
  /\ toast' = Null
  /\ UNCHANGED <<ctxVars, transient, routeVars, guardVars, loginReqs, otpEmail,
                 otpLoading, verifyReqs, verifyOrphans, page, requests, timers>>

\* handleResendOTP() up to its await
ResendOTP ==
  /\ view = "OTPVerification"
  /\ ~page.resending
  /\ CanRequest(CurUi)
  /\ PageStep([CurUi EXCEPT !.toast = Null, !.page.resending = TRUE,
                 !.requests = @ \cup {api("handleResendOTP", "POST", "/auth/resend-otp",
                                           durable)}])

\* handleResendOTP() after its await: success empties the cells
ResendResponse(r, ok) ==
  /\ ~session.loading
  /\ r \in requests
  /\ r.op = "handleResendOTP"
  /\ ShowUi([CurUi EXCEPT !.toast = Null, !.requests = @ \ {r}, !.page.resending = FALSE])
  /\ otp' = IF ok THEN EmptyOtp ELSE otp
  /\ UNCHANGED <<ctxVars, transient, routeVars, guardVars, loginReqs, otpEmail,
                 otpLoading, verifyReqs, verifyOrphans>>

(* ----------------------------- DronePermitForm ------------------------- *)

\* DronePermitForm.handleSubmit(e) up to its await
DronePermitForm_handleSubmit(x, d) ==
  IF x.page.files # Documents
    THEN [x EXCEPT !.toast = "Please upload all required documents"]
  ELSE IF ~x.page.agrees_to_rules
    THEN [x EXCEPT !.toast = "Please agree to the rules and regulations"]
  ELSE [x EXCEPT !.page.loading = TRUE,
                 !.requests = @ \cup {api("DronePermitForm.handleSubmit", "POST",
                                           "/permits/submit", d)}]

\* handleChange(e) of a text input of the step that shows (the model's user
\* types into one input of each step, the others keep their initial value)
handleChange(name, value) ==
  /\ view = "DronePermitForm"
  /\ name \in StepFields[page.currentStep]
  /\ PageStep([CurUi EXCEPT !.toast = Null, !.page.formData[name] = value])

\* handleChange(e) of the checkbox of step 4
handleChangeAgreement(checked) ==
  /\ view = "DronePermitForm"
  /\ page.currentStep = 4
  /\ PageStep([CurUi EXCEPT !.toast = Null, !.page.agrees_to_rules = checked])

\* handleFileChange(e) of a file input of step 4: selectedFiles[0] is the
\* file, or undefined
handleFileChange(name, chosen) ==
  /\ view = "DronePermitForm"
  /\ page.currentStep = 4
  /\ PageStep([CurUi EXCEPT !.toast = Null,
        !.page.files = IF chosen THEN @ \cup {name} ELSE @ \ {name}])

\* nextStep(), from the Next button of steps 1 to 3: nothing is validated
nextStep ==
  /\ view = "DronePermitForm"
  /\ page.currentStep < 4
  /\ PageStep([CurUi EXCEPT !.toast = Null, !.page.currentStep = @ + 1])

\* prevStep(), from the Previous button of steps 2 to 4
prevStep ==
  /\ view = "DronePermitForm"
  /\ page.currentStep > 1
  /\ PageStep([CurUi EXCEPT !.toast = Null, !.page.currentStep = @ - 1])

\* the form is submitted: its submit button is rendered at step 4
PermitSubmit ==
  /\ view = "DronePermitForm"
  /\ page.currentStep = 4
  /\ ~page.loading
  /\ CanRequest(CurUi)
  /\ PageStep(DronePermitForm_handleSubmit([CurUi EXCEPT !.toast = Null], durable))

\* DronePermitForm.handleSubmit after its await
PermitResponse(r, ok) ==
  /\ ~session.loading
  /\ r \in requests
  /\ r.op = "DronePermitForm.handleSubmit"
  /\ LET x == [CurUi EXCEPT !.toast = Null, !.requests = @ \ {r}]
         y == SetState(r, x, [x.page EXCEPT !.loading = FALSE])
     IN CommitUi(Outcome(CurCtx, transient, IF ok THEN "/my-permits" ELSE Null),
                 Null, CurPages, y)

(* ----------------------------- MyPermits ------------------------------- *)

\* fetchPermits() after its await: with the list or an error, loading ends
PermitsResponse(r) ==
  /\ r \in requests
  /\ r.op = "fetchPermits"
  /\ LET x == [CurUi EXCEPT !.toast = Null, !.requests = @ \ {r}]
     IN PageStep(SetState(r, x, [x.page EXCEPT !.loading = FALSE]))

(* ----------------------------- PermitReview ---------------------------- *)

\* viewDocument's fullUrl, of the path the permit stores for a document
DocumentUrl(doc) == "http://localhost:8000/uploads/permits/" \o doc

\* PermitReview renders: the <img> or <iframe> and the download link of the
\* document modal load the document
RenderReview(x) ==
  [x EXCEPT !.requests =
     {r \in @ : r.via = "api"} \cup
     (IF x.page.showDocumentModal
      THEN {element("viewDocument", DocumentUrl(x.page.selectedDocument))}
      ELSE {})]

\* closeReviewModal()
closeReviewModal(x) ==
  [x EXCEPT !.page.showReviewModal = FALSE, !.page.reviewData = {},
            !.page.reviewAction = ""]

\* handleReviewSubmit that asks for the officer's name only
handleReviewSubmit_nameOnly(x, d) ==
  IF "officer_name" \notin x.page.reviewData
  THEN [x EXCEPT !.toast = "Please fill in all officer information"]
  ELSE [x EXCEPT !.page.submitting = TRUE,
                 !.requests = @ \cup {api("handleReviewSubmit", "POST", "/permits/review", d)}]

\* handleReviewSubmit(e) up to its await (reviewData: the officer fields
\* that are filled)
handleReviewSubmit(x, d) ==
  IF x.page.reviewData # OfficerFields
  THEN [x EXCEPT !.toast = "Please fill in all officer information"]
  ELSE [x EXCEPT !.page.submitting = TRUE,
                 !.requests = @ \cup {api("handleReviewSubmit", "POST", "/permits/review", d)}]

\* the functions of PermitReview after their await
ReviewContinue(r, ok, x, d) ==
  CASE r.op = "fetchPendingPermits" ->
         SetState(r, x, [x.page EXCEPT !.permits = IF ok THEN TRUE ELSE @,
                                       !.loading = FALSE])
    [] r.op = "viewDetails" ->
         IF ok THEN SetState(r, x, [x.page EXCEPT !.selectedPermit = TRUE]) ELSE x
    [] r.op = "handleReviewSubmit" ->
         IF ok
         THEN LET y == [x EXCEPT !.requests = @ \cup
                          {From(r, api("fetchPendingPermits", "GET", "/permits/pending", d))}]
              IN SetState(r, y, [closeReviewModal(y).page EXCEPT
                                   !.selectedPermit = FALSE, !.submitting = FALSE])
         ELSE SetState(r, x, [x.page EXCEPT !.submitting = FALSE])
    [] r.op = "downloadPermitData" -> x

\* the buttons of a row of the list
ViewDetails(permitId) ==
  /\ view = "PermitReview"
  /\ ~page.loading /\ page.permits
  /\ CanRequest(CurUi)
  /\ PageStep(RenderReview([CurUi EXCEPT !.toast = Null,
        !.requests = @ \cup {api("viewDetails", "GET", "/permits/" \o ToString(permitId), durable)}]))

DownloadPermitData(permitId) ==
  /\ view = "PermitReview"
  /\ ~page.loading /\ page.permits
  /\ CanRequest(CurUi)
  /\ PageStep(RenderReview([CurUi EXCEPT !.toast = Null,
        !.requests = @ \cup {api("downloadPermitData", "GET", "/permits/download/" \o ToString(permitId), durable)}]))

\* openReviewModal(permit, action)
openReviewModal(action) ==
  /\ view = "PermitReview"
  /\ ~page.loading /\ page.permits
  /\ PageStep(RenderReview([CurUi EXCEPT !.toast = Null, !.page.selectedPermit = TRUE,
        !.page.reviewAction = action, !.page.showReviewModal = TRUE]))

\* viewDocument(docPath, docType, docName), from the details modal
viewDocument(doc) ==
  /\ view = "PermitReview"
  /\ ~page.loading /\ page.selectedPermit /\ ~page.showReviewModal
  /\ PageStep(RenderReview([CurUi EXCEPT !.toast = Null, !.page.selectedDocument = doc,
        !.page.showDocumentModal = TRUE]))

CloseDetails ==
  /\ view = "PermitReview"
  /\ ~page.loading /\ page.selectedPermit /\ ~page.showReviewModal
  /\ PageStep(RenderReview([CurUi EXCEPT !.toast = Null, !.page.selectedPermit = FALSE]))

CloseDocument ==
  /\ view = "PermitReview"
  /\ ~page.loading /\ page.showDocumentModal
  /\ PageStep(RenderReview([CurUi EXCEPT !.toast = Null, !.page.showDocumentModal = FALSE]))

\* the review modal: an officer field is typed or emptied, the form is
\* submitted, the modal is closed
SetReviewData(field, filled) ==
  /\ view = "PermitReview"
  /\ ~page.loading /\ page.showReviewModal
  /\ PageStep(RenderReview([CurUi EXCEPT !.toast = Null,
        !.page.reviewData = IF filled THEN @ \cup {field} ELSE @ \ {field}]))

ReviewSubmit ==
  /\ view = "PermitReview"
  /\ ~page.loading /\ page.showReviewModal
  /\ ~page.submitting
  /\ CanRequest(CurUi)
  /\ PageStep(RenderReview(handleReviewSubmit([CurUi EXCEPT !.toast = Null], durable)))

CloseReviewModal ==
  /\ view = "PermitReview"
  /\ ~page.loading /\ page.showReviewModal
  /\ ~page.submitting
  /\ PageStep(RenderReview(closeReviewModal([CurUi EXCEPT !.toast = Null])))

\* the backend answers a request of PermitReview, with data or an error
ReviewResponse(r, ok) ==
  /\ r \in requests
  /\ r.op \in {"fetchPendingPermits", "viewDetails", "handleReviewSubmit",
              "downloadPermitData"}
  /\ LET x == ReviewContinue(r, ok, [CurUi EXCEPT !.toast = Null, !.requests = @ \ {r}],
                             durable)
     IN PageStep(IF view = "PermitReview" THEN RenderReview(x) ELSE x)

(* ----------------------------- the pages of a session ------------------ *)

NextPages ==
  \/ Restore
  \/ \E p \in Paths : NavigateTo(p)
  \/ \E i \in 1..6 : NavbarLink(i)
  \/ NavbarLogout
  \/ \E tab \in {"upload", "history", "analysis"} : setActiveTab(tab)
  \/ \E file \in {"flood.mp4", "notes.txt", "long.mp4", "none"} : handleFileSelect(file)
  \/ Upload
  \/ \E v \in {7} : ViewAnalysis(v)
  \/ \E v \in {7} : DeleteVideo(v)
  \/ \E output \in {"detection", "segmentation"} : DownloadVideo(output)
  \/ BackToHistory
  \/ \E t \in timers : PollTick(t, 1)
  \/ \E t \in timers : PollCeiling(t)
  \/ \E r \in requests : \E a \in VideoAnswers(r, {7}) : VideoResponse(r, a)
  \/ \E t \in timers : LiveTick(t)
  \/ \E r \in requests : LiveResponse(r)
  \/ \E r \in requests : PermitsResponse(r)
  \/ \E permitId \in {3} : ViewDetails(permitId)
  \/ \E permitId \in {3} : DownloadPermitData(permitId)
  \/ \E doc \in Documents : viewDocument(doc)
  \/ CloseDetails
  \/ CloseDocument
  \/ \E r \in requests, ok \in BOOLEAN : ReviewResponse(r, ok)

\* the sessions a visitor of the pages has stored: none, or one of each role
PageSessions ==
  {EmptyStorage} \cup
  {d \in StoredSessions : d.token = "jwt1" /\ d.user # NoUser /\ d.user.id = 1}

InitPages == Init /\ durable \in PageSessions

SpecPages == InitPages /\ [][NextPages]_vars

(* ----------------------------- the video page -------------------------- *)

\* A citizen on the video page looks at the analyses of two videos.
NextVideo ==
  \/ Restore
  \/ \E tab \in {"upload", "history", "analysis"} : setActiveTab(tab)
  \/ \E v \in VideoIds : ViewAnalysis(v)
  \/ \E output \in {"detection", "segmentation"} : DownloadVideo(output)
  \/ BackToHistory
  \/ \E r \in requests : \E a \in VideoAnswers(r, VideoIds) : VideoResponse(r, a)

\* A citizen uploads videos, and may leave the video page for the dashboard
\* and come back: the status requests of a poll are answered late or never.
NextPoll ==
  \/ Restore
  \/ \E p \in {"/video-analysis", "/citizen-dashboard"} : NavigateTo(p)
  \/ \E tab \in {"upload", "history"} : setActiveTab(tab)
  \/ \E file \in {"flood.mp4", "notes.txt"} : handleFileSelect(file)
  \/ Upload
  \/ \E t \in timers : PollTick(t, MaxPolls)
  \/ \E t \in timers : PollCeiling(t)
  \/ \E r \in requests : \E a \in VideoAnswers(r, {7}) : VideoResponse(r, a)

InitVideo ==
  /\ InitPages
  /\ location = "/video-analysis"
  /\ durable.user # NoUser
  /\ durable.user.role = "citizen"

SpecVideo == InitVideo /\ [][NextVideo]_vars

SpecPoll == InitVideo /\ [][NextPoll]_vars

\* setTimeout(() => clearInterval(pollInterval), 30 * 60 * 1000) is a task
\* of the event loop: once set it runs, mounted or not
SpecPollFair == SpecPoll /\ WF_vars(\E t \in timers : PollCeiling(t))

(* ----------------------------- the forms ------------------------------- *)

\* the answers that start no session
Refusals(responses) == {response \in responses : response.kind # "success"}

\* The forms and their handlers. The visitor who signs in with Google has no
\* stored session, and the backend starts none here: the forms of the signed-in
\* pages are met with an empty transient storage.
NextForms ==
  \/ Restore
  \/ \E p \in Paths : NavigateTo(p)
  \/ \E g \in GoogleTokens, r \in BOOLEAN : durable = EmptyStorage /\ GoogleSuccess(g, r)
  \/ \E response \in Refusals(LoginResponses) : LoginResponse(response)
  \/ \E role \in Roles : SelectRole(role)
  \/ \E value \in {"", "NDRF2024"} : SetCode(value)
  \/ RoleSubmit
  \/ \E r \in requests, response \in RegisterResponses : RegisterResponse(r, response)
  \/ \E text \in Pasted : Paste(text)
  \/ SubmitOtp
  \/ \E response \in Refusals(VerifyResponses) : VerifyResponse(response)
  \/ ResendOTP
  \/ \E r \in requests, ok \in BOOLEAN : ResendResponse(r, ok)
  \/ \E name \in {"manufacturer", "full_name", "ward_no"}, value \in {"", "x"} :
       handleChange(name, value)
  \/ \E checked \in BOOLEAN : handleChangeAgreement(checked)
  \/ \E name \in Documents, chosen \in BOOLEAN : handleFileChange(name, chosen)
  \/ nextStep
  \/ prevStep
  \/ PermitSubmit
  \/ \E r \in requests, ok \in BOOLEAN : PermitResponse(r, ok)
  \/ \E r \in requests : PermitsResponse(r)
  \/ \E action \in {"approved", "rejected"} : openReviewModal(action)
  \/ \E field \in OfficerFields, filled \in BOOLEAN : SetReviewData(field, filled)
  \/ ReviewSubmit
  \/ CloseReviewModal
  \/ \E r \in requests, ok \in BOOLEAN : ReviewResponse(r, ok)
  \/ \E file \in {"flood.mp4", "notes.txt", "long.mp4", "none"} : handleFileSelect(file)
  \/ Upload
  \/ \E r \in requests : \E a \in VideoAnswers(r, {7}) : VideoResponse(r, a)

SpecForms == InitPages /\ [][NextForms]_vars

(* ----------------------------- the way to the OTP page ----------------- *)

\* Google accounts that are not verified yet: account i signs in with the
\* identity token g<i>, and the backend sends the code to its address
PendingAccounts == 1..MaxGoogleToken + 1

AccountToken(i) == "g" \o ToString(i)

\* what the backend answers a sign-in with the token that is stored
NeedsVerification(i) ==
  [kind |-> "needs_verification", access_token |-> Null, user |-> NoUser,
   email |-> EmailOf(i)]

\* A visitor signs in or registers with Google accounts that are not
\* verified yet, and moves between the sign-in pages while the backend
\* answers. A sign-in starts when no request is outstanding, so that the
\* request that is answered carries the token that is stored.
NextVerify ==
  \/ Restore
  \/ \E p \in {"/", "/login-process", "/role-selection", "/verify-otp"} : NavigateTo(p)
  \/ \E i \in PendingAccounts, r \in BOOLEAN :
       /\ loginReqs = 0
       /\ requests = {}
       /\ GoogleSuccess(AccountToken(i), r)
  \/ \E i \in PendingAccounts :
       /\ transient.google_token = AccountToken(i)
       /\ LoginResponse(NeedsVerification(i))
  \/ SelectRole("citizen")
  \/ RoleSubmit
  \/ \E r \in requests, i \in PendingAccounts :
       /\ transient.google_token = AccountToken(i)
       /\ RegisterResponse(r, [kind |-> "success", email |-> EmailOf(i)])

InitVerify == InitPages /\ durable = EmptyStorage

SpecVerify == InitVerify /\ [][NextVerify]_vars

\* The visitor who has to verify stays on the OTP page: the code is typed,
\* pasted, submitted and refused, and sent again.
NextOtp ==
  \/ Restore
  \/ GoogleSuccess(AccountToken(1), FALSE)
  \/ LoginResponse(NeedsVerification(1))
  \/ \E text \in Pasted : Paste(text)
  \/ \E index \in 1..6, value \in {<<>>, <<"7">>, <<"x">>} :
       OTPVerification_handleChange(index, value)
  \/ SubmitOtp
  \/ \E response \in Refusals(VerifyResponses) : VerifyResponse(response)
  \/ ResendOTP
  \/ \E r \in requests, ok \in BOOLEAN : ResendResponse(r, ok)

SpecOtp == InitVerify /\ [][NextOtp]_vars

(* ----------------------------- the session and the backend ------------- *)

\* The sign-in pages together with what else talks to the backend around
\* them: the OTP is sent again, and the fetches of the pages that mount are
\* answered.
NextSession ==
  \/ Restore
  \/ \E p \in Paths : NavigateTo(p)
  \/ \E g \in GoogleTokens, r \in BOOLEAN : GoogleSuccess(g, r)
  \/ \E response \in LoginResponses : LoginResponse(response)
  \/ \E text \in Pasted : Paste(text)
  \/ Submit
  \/ \E response \in VerifyResponses : VerifyResponse(response)
  \/ \E response \in VerifyResponses : VerifyOrphanResponse(response)
  \/ NavbarLogout
  \/ AdminLogout
  \/ ResendOTP
  \/ \E r \in requests, ok \in BOOLEAN : ResendResponse(r, ok)
  \/ \E r \in requests : PermitsResponse(r)
  \/ \E r \in requests, ok \in BOOLEAN : r.op = "fetchPendingPermits" /\ ReviewResponse(r, ok)

SpecSession == InitPages /\ [][NextSession]_vars

(* ----------------------------- the domain services --------------------- *)

\* the functions of authService and permitService: each awaits one call of
\* the adapter and returns response.data
ServiceFunctions ==
  {[name |-> "register", method |-> "POST", url |-> "/auth/register"],
   [name |-> "verifyOTP", method |-> "POST", url |-> "/auth/verify-otp"],
   [name |-> "resendOTP", method |-> "POST", url |-> "/auth/resend-otp"],
   [name |-> "login", method |-> "POST", url |-> "/auth/login"],
   [name |-> "getCurrentUser", method |-> "GET", url |-> "/users/me"],
   [name |-> "checkEmail", method |-> "GET", url |-> "/auth/check-email/" \o EmailOf(1)],
   [name |-> "submitPermit", method |-> "POST", url |-> "/permits/submit"],
   [name |-> "getMyPermits", method |-> "GET", url |-> "/permits/my-permits"],
   [name |-> "getPendingPermits", method |-> "GET", url |-> "/permits/pending"],
   [name |-> "getPermitDetails", method |-> "GET", url |-> "/permits/3"],
   [name |-> "reviewPermit", method |-> "POST", url |-> "/permits/review"],
   [name |-> "downloadPermitPackage", method |-> "GET", url |-> "/permits/download/3"]}

\* what the adapter hands back: a response with its body, or an error thrown
ServiceResponses ==
  {[kind |-> "ok", data |-> b] : b \in {"{success: true}", "{success: false}"}}
  \cup {[kind |-> "error", data |-> e] : e \in {"401", "500", "Network Error"}}

\* a service function that calls again when its call has failed
settle_retry(inv, response, d) ==
  IF response.kind = "ok"
  THEN [inv |-> [inv EXCEPT !.returned = response.data], requests |-> {}]
  ELSE [inv |-> [inv EXCEPT !.calls = @ + 1],
        requests |-> {api(inv.fn.name, inv.fn.method, inv.fn.url, d)}]

\* a service function after its await: return response.data, or the error
\* of the adapter goes on to the caller (there is no try around the await)
settle(inv, response, d) ==
  IF response.kind = "ok"
  THEN [inv |-> [inv EXCEPT !.returned = response.data], requests |-> {}]
  ELSE [inv |-> [inv EXCEPT !.thrown = response.data], requests |-> {}]

\* a service function is called: it calls the adapter and awaits. The
\* invocation: the calls it has made, the value it has returned and the error
\* it has thrown to its caller
Invoke(f) ==
  /\ page = Stateless
  /\ requests = {}
  /\ page' = [fn |-> f, calls |-> 1, returned |-> Null, thrown |-> Null]
  /\ requests' = {api(f.name, f.method, f.url, durable)}
  /\ UNCHANGED <<ctxVars, transient, routeVars, guardVars, loginReqs, otpVars, timers, toast>>

\* the adapter answers
Settle(r, response) ==
  /\ page # Stateless
  /\ r \in requests
  /\ LET o == settle(page, response, durable)
     IN /\ o.inv.calls <= 2
        /\ page' = o.inv
        /\ requests' = (requests \ {r}) \cup o.requests
  /\ UNCHANGED <<ctxVars, transient, routeVars, guardVars, loginReqs, otpVars, timers, toast>>

\* the caller has its answer
Settled ==
  /\ page # Stateless
  /\ requests = {}
  /\ page' = Stateless
  /\ UNCHANGED <<ctxVars, transient, routeVars, guardVars, loginReqs, otpVars, requests,
                 timers, toast>>

NextService ==
  \/ \E f \in ServiceFunctions : Invoke(f)
  \/ \E r \in requests, response \in ServiceResponses : Settle(r, response)
  \/ Settled

\* the services are called from the landing page, with or without a token
\* in the durable storage
InitService == InitPages /\ location = "/"

SpecService == InitService /\ [][NextService]_vars

(* ----------------------------- route guard: properties ----------------- *)

\* the pages behind a ProtectedRoute
ProtectedPages == {ProtectedRoutes[p].page : p \in DOMAIN ProtectedRoutes}

\* the sessions a guard can be handed: a token and a profile come together
GuardSessions == {s \in Session : (s.token = Null) <=> (s.user = NoUser)}

\* the dashboard route of each role, as the route table spells it
OwnDashboard(role) ==
  CASE role = "citizen" -> "/citizen-dashboard"
    [] role = "officer" -> "/officer-dashboard"
    [] role = "admin" -> "/admin-dashboard"

\* C1: with loading = false and no authenticated session, ProtectedRoute
\* redirects to the landing route "/" for every allowedRoles, empty or not,
\* and no wrapped page is rendered.
C1_UnauthenticatedRedirectsToLanding ==
  (~session.loading /\ ~isAuthenticated(session)) =>
    /\ \A a \in SUBSET Roles : ProtectedRoute(session, a) = Navigate("/")
    /\ guardResult \in {NotRendered, Navigate("/")}
    /\ location \notin DOMAIN ProtectedRoutes
    /\ view \notin ProtectedPages

C1_Witness ==
  /\ ~session.loading
  /\ ~isAuthenticated(session)
  /\ guardProps = {"officer", "admin"}
  /\ guardResult = Navigate("/")

\* C2: an authenticated user whose role is not in a non-empty allowedRoles is
\* redirected to the dashboard of the user's own role, never to "/" and never
\* to a path that is no registered route.
C2_RoleMismatchRedirectsToOwnDashboard ==
  (~session.loading /\ isAuthenticated(session)) =>
    /\ \A a \in (SUBSET Roles) \ {{}} :
         session.user.role \notin a =>
           /\ ProtectedRoute(session, a) = Navigate(OwnDashboard(session.user.role))
           /\ ProtectedRoute(session, a).to # "/"
           /\ ProtectedRoute(session, a).to \in DOMAIN ProtectedRoutes
    /\ (guardProps # {} /\ guardResult # NotRendered /\ session.user.role \notin guardProps) =>
         guardResult = Navigate(OwnDashboard(session.user.role))
    /\ (session.user.role = "citizen" /\ guardProps = {"officer"} /\ guardResult # NotRendered) =>
         guardResult = Navigate("/citizen-dashboard")

C2_Witness ==
  /\ ~session.loading
  /\ isAuthenticated(session)
  /\ session.user.role = "citizen"
  /\ guardProps = {"officer"}
  /\ guardResult = Navigate("/citizen-dashboard")

\* C3: with an empty allowedRoles every authenticated session (loading =
\* false) gets the wrapped child, whatever the role; there is no redirect.
C3_EmptyAllowedRolesRendersChild ==
  (~session.loading /\ isAuthenticated(session)) =>
    /\ ProtectedRoute(session, {}) = Children
    /\ (guardProps = {} /\ guardResult # NotRendered) => guardResult = Children

C3_Witness ==
  /\ ~session.loading
  /\ isAuthenticated(session)
  /\ session.user.role = "officer"
  /\ guardProps = {}
  /\ guardResult = Children

\* C4: while loading is true the guard renders the placeholder only: no
\* wrapped page and no redirect, whatever isAuthenticated, the role and
\* allowedRoles are.
C4_LoadingRendersPlaceholder ==
  /\ \A s \in GuardSessions, a \in SUBSET Roles :
       s.loading => ProtectedRoute(s, a) = Placeholder
  /\ session.loading =>
       /\ guardResult \in {NotRendered, Placeholder}
       /\ view \notin ProtectedPages
       /\ location \in DOMAIN ProtectedRoutes => view = "placeholder"

C4_Witness ==
  /\ session.loading
  /\ durable.token # Null
  /\ guardProps = {"admin"}
  /\ guardResult = Placeholder
  /\ location = "/admin-dashboard"
  /\ view = "placeholder"

\* the decision of section 4.2, case by case
GuardContract(s, allowedRoles) ==
  CASE s.loading -> Placeholder
    [] ~s.loading /\ s.token = Null -> Navigate("/")
    [] ~s.loading /\ s.token # Null /\ allowedRoles # {} /\ s.user.role \notin allowedRoles ->
         Navigate(OwnDashboard(s.user.role))
    [] OTHER -> Children

\* C5: rendering the guard is a pure decision: the one outcome it yields is
\* the one the four cases of the contract fix for (loading, isAuthenticated,
\* role, allowedRoles), and the step leaves the session, the durable storage
\* and the transient storage as they were.
C5_GuardIsPureDecision ==
  [][(\E a \in SUBSET Roles : RenderProtectedRoute(a)) =>
       /\ guardResult' = GuardContract(session, guardProps')
       /\ guardResult' \in {Placeholder, Navigate("/"), Children}
                            \cup {Navigate(OwnDashboard(r)) : r \in Roles}
       /\ UNCHANGED <<session, durable, transient>>]_vars

C5_Witness ==
  /\ guardResult = Children
  /\ guardProps = {"citizen", "officer"}
  /\ session.user.role = "officer"
  /\ durable.token = session.token

(* ----------------------------- session: properties --------------------- *)

NoSession(s) == s.token = Null /\ s.user = NoUser

\* C6: in every state reached through restore, login and logout, the login
\* calls of the login and OTP pages included, the token is present exactly
\* when the user is: no partial session, in memory or in durable storage.
C6_NoPartialSession ==
  /\ (session.token = Null) <=> (session.user = NoUser)
  /\ (durable.token = Null) <=> (durable.user = NoUser)
  /\ session.token \in Tokens => session.user \in UserProfile

C6_Witness ==
  /\ ctxOps = "login"
  /\ session.token \in Tokens
  /\ session.user \in UserProfile
  /\ view = "OfficerDashboard"
  /\ transient = EmptyTransient

\* C7: isAuthenticated is true exactly when the session holds a token, and
\* that is what the guard acts on: a protected page is on screen only with a
\* token present.
C7_AuthenticatedIffToken ==
  /\ isAuthenticated(session) <=> (session.token \in Tokens)
  /\ ~isAuthenticated(session) <=> (session.token = Null)
  /\ view \in ProtectedPages => session.token \in Tokens

C7_Witness ==
  /\ isAuthenticated(session)
  /\ session.token \in Tokens
  /\ view = "CitizenDashboard"
  /\ ctxOps = "restore"

\* C8: login(token, user) followed by a reload and restore() gives a session
\* that holds exactly that token and that user, whatever the session held
\* before the login.
C8_LoginThenRestore ==
  /\ \A t \in Tokens, u \in UserProfile :
       LET c == restore(reload(login(CurCtx, t, u)))
       IN /\ c.session = [token |-> t, user |-> u, loading |-> FALSE]
          /\ c.durable = [token |-> t, user |-> u]
  /\ (ctxOps = "restore" /\ lastLogin.by = "login") =>
       /\ session.token = lastLogin.token
       /\ session.user = lastLogin.user
       /\ ~session.loading

C8_Witness ==
  /\ ctxOps = "restore"
  /\ lastLogin.by = "login"
  /\ session.token = lastLogin.token
  /\ session.user = lastLogin.user
  /\ session.user.role = "admin"
  /\ view = "AdminDashboard"

\* C9: logout() followed by a reload and restore() gives the empty,
\* unauthenticated session, from any session state and through either
\* handleLogout: durable storage is cleared along with the session.
C9_LogoutThenRestore ==
  /\ \A o \in {logout(CurCtx), handleLogout(CurCtx, transient).ctx,
               adminHandleLogout(CurCtx, transient).ctx} :
       LET c == restore(reload(o))
       IN /\ c.session = [token |-> Null, user |-> NoUser, loading |-> FALSE]
          /\ c.durable = EmptyStorage
  /\ (ctxOps = "restore" /\ lastLogin.by = "logout") =>
       /\ NoSession(session)
       /\ ~isAuthenticated(session)
       /\ durable = EmptyStorage

C9_Witness ==
  /\ ctxOps = "restore"
  /\ lastLogin.by = "logout"
  /\ NoSession(session)
  /\ ~session.loading
  /\ durable = EmptyStorage

\* C10: logout() can always be called and is idempotent: two calls leave the
\* session and the durable storage as one call does, and a call on an empty
\* session changes neither.
C10_LogoutIdempotent ==
  /\ logout(logout(CurCtx)).session = logout(CurCtx).session
  /\ logout(logout(CurCtx)).durable = logout(CurCtx).durable
  /\ (NoSession(session) /\ durable = EmptyStorage) =>
       /\ logout(CurCtx).session = session
       /\ logout(CurCtx).durable = durable
  /\ ~session.loading => ENABLED Logout
  /\ ctxOps = "logout again" => (NoSession(session) /\ durable = EmptyStorage)

C10_Witness ==
  /\ ctxOps = "logout again"
  /\ lastLogin.by = "logout"
  /\ NoSession(session)
  /\ durable = EmptyStorage

(* ----------------------------- startup: properties --------------------- *)

\* C11: restore() runs once, as the first call after the app starts, makes no
\* network call and ends with loading = false: with a stored token the
\* session is that token and its user at once, otherwise it is empty.
\* Afterwards loading is false for as long as the app runs (only a reload of
\* the page starts over), so every start gets past loading and no route
\* guard shows its placeholder forever.
C11_RestoreEndsLoading ==
  /\ [](/\ session.loading => (ctxOps \in {"none", "reload"} /\ NoSession(session))
        /\ ctxOps = "restore" =>
             /\ ~session.loading
             /\ session.token = durable.token
             /\ session.user = durable.user
             /\ loginReqs = 0 \/ view = "LoginProcess"
        /\ ~session.loading => view # "placeholder")
  /\ (session.loading ~> ~session.loading)
  /\ ((view = "placeholder") ~> (view # "placeholder"))

C11_Witness ==
  /\ ctxOps = "restore"
  /\ ~session.loading
  /\ session.token = durable.token
  /\ session.user.role = "officer"
  /\ location = "/permit-review"
  /\ view = "PermitReview"

(* ----------------------------- OTP verification: properties ------------ *)

\* the page each role's dashboard route renders
DashboardPage(role) ==
  CASE role = "citizen" -> "CitizenDashboard"
    [] role = "officer" -> "OfficerDashboard"
    [] role = "admin" -> "AdminDashboard"

\* C13: a success response to the code submitted from the OTP page (which
\* read the stored verify_email) authenticates the session with the token and
\* the user of the response and takes the app to "/{role}-dashboard", where
\* the guard lets the role's dashboard render: "/officer-dashboard" for an
\* officer.
C13_OtpSuccessOpensDashboard ==
  [][\A response \in VerifyResponses :
       (response.kind = "success" /\ VerifyResponse(response)) =>
         /\ otpEmail \in Emails
         /\ isAuthenticated(session')
         /\ session'.token = response.access_token
         /\ session'.user = response.user
         /\ location' = "/" \o response.user.role \o "-dashboard"
         /\ view' = DashboardPage(response.user.role)
         /\ response.user.role = "officer" =>
              (location' = "/officer-dashboard" /\ view' = "OfficerDashboard")]_vars

C13_Witness ==
  /\ ctxOps = "login"
  /\ lastLogin.by = "login"
  /\ session.user.role = "officer"
  /\ isAuthenticated(session)
  /\ location = "/officer-dashboard"
  /\ view = "OfficerDashboard"
  /\ transient.verify_email = Null
  /\ transient.google_token = Null
  /\ loginReqs = 0
  /\ verifyOrphans = 0

(* ----------------------------- C12 ------------------------------------- *)

\* the steps that call login() or logout(), or start the app
SessionSteps ==
  \/ Restore
  \/ \E response \in LoginResponses : response.kind = "success" /\ LoginResponse(response)
  \/ \E response \in VerifyResponses :
       response.kind = "success" /\ (VerifyResponse(response) \/ VerifyOrphanResponse(response))
  \/ NavbarLogout
  \/ AdminLogout

\* C12: the session (token, user), in memory and in the durable storage, is
\* changed only by a step that calls login() or logout() and by restore() when
\* the app starts. A login response that is no success, a failed OTP
\* verification, a resend of the OTP and a failed fetch of a page leave it as
\* it is, being none of these steps: no answer of the backend ends the
\* session.
C12_SessionChangedOnlyByLoginLogout ==
  [][(session'.token # session.token \/ session'.user # session.user
       \/ durable' # durable) => SessionSteps]_vars

\* a signed-in user's login request has failed: the user is on the landing
\* page, the session as it was stored
C12_Witness ==
  /\ isAuthenticated(session)
  /\ session.token = durable.token
  /\ ctxOps = "restore"
  /\ lastLogin.by = "stored"
  /\ transient.google_token # Null
  /\ loginReqs = 0
  /\ location = "/"

(* ----------------------------- C14 ------------------------------------- *)

\* C14: while a session is established, every request the client has made to
\* the backend carries "Authorization: Bearer <token>" with the token of the
\* session, the requests for the processed videos (stream and download) and
\* for the documents of a permit included.
C14_RequestsCarryBearer ==
  isAuthenticated(session) =>
    \A r \in requests : r.authorization = Bearer(session.token)

(* ----------------------------- C15 ------------------------------------- *)

\* C15: every function of authService and permitService makes exactly one
\* HTTP call per invocation, through the adapter, to its own method and URL.
\* When the call succeeds the function returns the body of the response; when
\* it fails, the error goes to the caller as it was thrown, and no further
\* call is made.
C15_OneCallPerInvocation ==
  /\ [](page # Stateless =>
          /\ page.calls = 1
          /\ requests \subseteq {api(page.fn.name, page.fn.method, page.fn.url, durable)}
          /\ (requests # {}) <=> (page.returned = Null /\ page.thrown = Null)
          /\ page.returned = Null \/ page.thrown = Null)
  /\ [][\A r \in requests, response \in ServiceResponses :
          Settle(r, response) =>
            /\ requests' = {}
            /\ page'.calls = 1
            /\ response.kind = "ok" =>
                 (page'.returned = response.data /\ page'.thrown = Null)
            /\ response.kind = "error" =>
                 (page'.thrown = response.data /\ page'.returned = Null)]_vars

\* permitService.reviewPermit has failed with a 500: one call, the error
\* thrown, nothing in flight
C15_Witness ==
  /\ page # Stateless
  /\ "fn" \in DOMAIN page
  /\ page.fn.name = "reviewPermit"
  /\ page.calls = 1
  /\ page.thrown = "500"
  /\ page.returned = Null
  /\ requests = {}
  /\ durable.token # Null

(* ----------------------------- C16 ------------------------------------- *)

\* a submit handler has made no network call
NoCall ==
  /\ requests' = requests
  /\ loginReqs' = loginReqs
  /\ verifyReqs' = verifyReqs
  /\ verifyOrphans' = verifyOrphans

\* C16: when its validation fails, a submit handler shows a notification and
\* returns: it makes no network call, leaves its busy flag as it was and the
\* user where they are. The validations: no role selected or the code of the
\* role missing (RoleSelection), an OTP that has not 6 characters, officer
\* information missing (PermitReview), no video file selected, a document
\* missing or the agreement not ticked (DronePermitForm).
C16_FailedValidationCallsNothing ==
  [][/\ (RoleSubmit /\ (\/ page.selectedRole = ""
                       \/ (page.selectedRole = "officer" /\ page.organizationCode = "")
                       \/ (page.selectedRole = "admin" /\ page.masterAdminCode = "")))
          => (/\ toast' \in {"Please select a role",
                             "Organization code is required for officers",
                             "Master admin code is required for admins"}
              /\ NoCall /\ page' = page /\ ~page'.loading
              /\ location' = location /\ view' = view)
     /\ (SubmitOtp /\ Len(Join(otp)) # 6)
          => (/\ toast' = "Please enter complete OTP"
              /\ NoCall /\ otpLoading' = otpLoading /\ ~otpLoading' /\ otp' = otp
              /\ location' = location /\ view' = view)
     /\ (ReviewSubmit /\ page.reviewData # OfficerFields)
          => (/\ toast' = "Please fill in all officer information"
              /\ NoCall /\ page' = page /\ ~page'.submitting
              /\ location' = location /\ view' = view)
     /\ (Upload /\ ~page.selectedFile)
          => (/\ toast' = "Please select a video file"
              /\ NoCall /\ page' = page /\ ~page'.uploading
              /\ location' = location /\ view' = view)
     /\ (PermitSubmit /\ (page.files # Documents \/ ~page.agrees_to_rules))
          => (/\ toast' \in {"Please upload all required documents",
                             "Please agree to the rules and regulations"}
              /\ NoCall /\ page' = page /\ ~page'.loading
              /\ location' = location /\ view' = view)]_vars

\* the officer has submitted the review with the organization missing
C16_Witness ==
  /\ view = "PermitReview"
  /\ toast = "Please fill in all officer information"
  /\ page.showReviewModal
  /\ page.reviewData = OfficerFields \ {"officer_organization"}
  /\ ~page.submitting
  /\ requests = {}

(* ----------------------------- C17 ------------------------------------- *)

\* C17: over any sequence of nextStep/prevStep, field edits and file
\* selections, POST /permits/submit is issued only when every required field
\* of steps 1 to 3 is non-empty, the four documents are attached and
\* agrees_to_rules is true.
C17_SubmitOnlyWhenComplete ==
  [][(\E r \in requests' \ requests : r.method = "POST" /\ r.url = "/permits/submit")
      => (/\ \A name \in RequiredFields : page.formData[name] # ""
          /\ page.files = Documents
          /\ page.agrees_to_rules)]_vars

(* ----------------------------- C18 ------------------------------------- *)

\* the busy indicator of the page that shows, and the request whose answer
\* clears it
Busy ==
  CASE view = "LoginProcess" -> TRUE
    [] view = "OTPVerification" -> otpLoading \/ page.resending
    [] view = "RoleSelection" -> page.loading
    [] view = "DronePermitForm" -> page.loading
    [] view = "PermitReview" -> page.loading \/ page.submitting
    [] view = "MyPermits" -> page.loading
    [] view = "VideoAnalysis" -> page.uploading
    [] OTHER -> FALSE

Awaited ==
  \/ loginReqs > 0
  \/ verifyReqs > 0
  \/ \E r \in requests : r.via = "api" /\ r.mounted

\* C18: no answer of the backend strands the user. A page that shows its
\* busy or loading indicator still awaits an answer, and every answer, the
\* errors and a login response with neither success nor needs_verification
\* included, clears the indicator or takes the user to another page: there is
\* no state in which the indicator shows and nothing is awaited.
C18_NoFailureStrands ==
  (~session.loading /\ Busy) => Awaited

(* ----------------------------- C19 ------------------------------------- *)

\* the requests of rs as they were sent, whoever still waits for them
Sent(rs) == {[r EXCEPT !.mounted = FALSE] : r \in rs}

\* the user is taken to the landing page and the backend is not called
ToLandingWithoutCall ==
  /\ location' = "/"
  /\ view' = "PublicPage"
  /\ Sent(requests') \subseteq Sent(requests)
  /\ loginReqs' <= loginReqs
  /\ verifyReqs' <= verifyReqs
  /\ transient' = transient
  /\ session' = session

\* C19: an authentication step that finds its transient value missing takes
\* the user to the landing page "/" and calls no backend: the OTP page that
\* mounts without verify_email, the login-process page that mounts without a
\* Google token in the navigation state or in the storage, and the
\* role-selection form submitted, with a valid selection, without
\* google_token.
C19_SessionExpiredToLanding ==
  [][/\ (NavigateTo("/verify-otp") /\ transient.verify_email = Null)
          => ToLandingWithoutCall
     /\ (NavigateTo("/login-process") /\ transient.google_token = Null)
          => ToLandingWithoutCall
     /\ (RoleSubmit /\ transient.google_token = Null
           /\ page.selectedRole # ""
           /\ (page.selectedRole = "officer" => page.organizationCode # "")
           /\ (page.selectedRole = "admin" => page.masterAdminCode # ""))
          => (ToLandingWithoutCall /\ toast' = "Session expired. Please login again.")]_vars

\* the role-selection form was submitted for an officer, with the code, and
\* no google_token was stored: the user is on the landing page
C19_Witness ==
  /\ location = "/"
  /\ view = "PublicPage"
  /\ toast = "Session expired. Please login again."
  /\ transient.google_token = Null
  /\ requests = {}
  /\ loginReqs = 0

(* ----------------------------- C20 ------------------------------------- *)

\* the fetches a polling timer issues
PollFetches == {"pollProcessingStatus", "fetchStats", "fetchRecentDisasters"}

\* C20: the polling timers of LiveDashboard and of the video status are
\* cancelled when the view that owns them unmounts: no timer is left without
\* its view, and no fetch of a timer is issued for a view that has unmounted.
C20_TimersCancelledOnUnmount ==
  /\ \A t \in timers : t.mounted
  /\ \A r \in requests : r.op \in PollFetches => r.mounted


(* ----------------------------- C21 ------------------------------------- *)

\* the poll of video v is running: its interval is set
Polling(v, tm) == \E t \in tm : t.op = "pollProcessingStatus" /\ t.id = v

\* the answers that end a poll
Terminal ==
  {[kind |-> "ok", status |-> "completed"], [kind |-> "ok", status |-> "failed"],
   [kind |-> "error"]}

\* C21: the status poll of an uploaded video always terminates. A status
\* request is issued only while the interval of its video is set; a response
\* that reports 'completed' or 'failed', or a status request that throws,
\* clears the interval, and so does the 30-minute timeout; and every interval
\* that is set is cleared eventually, whatever the backend answers.
C21_PollTerminates ==
  /\ [][/\ \A r \in Sent(requests') \ Sent(requests) :
             r.op = "pollProcessingStatus" => Polling(VideoOf(r), timers)
        /\ \A r \in requests : \A a \in Terminal :
             (r.op = "pollProcessingStatus" /\ VideoResponse(r, a))
               => ~Polling(VideoOf(r), timers')
        /\ \A t \in timers : PollCeiling(t) => ~Polling(t.id, timers')]_vars
  /\ \A v \in VideoIds : Polling(v, timers) ~> ~Polling(v, timers)

\* the poll has ended while a status request still awaits its answer, which
\* no further request follows
C21_Witness ==
  /\ \E r \in requests : r.op = "pollProcessingStatus" /\ ~Polling(VideoOf(r), timers)
  /\ view = "VideoAnalysis"

(* ----------------------------- C22 ------------------------------------- *)

\* C22: the OAuth identity token is in transient storage only between the
\* login step and the verification step. Google sign-in writes it under
\* google_token, and when the session becomes authenticated, through OTP
\* verification or through direct login, neither google_token nor
\* verify_email remains in transient storage.
C22_TransientClearedOnceAuthenticated ==
  [][/\ \A g \in GoogleTokens, r \in BOOLEAN :
          GoogleSuccess(g, r) => transient'.google_token = g
     /\ (~session.loading /\ ~isAuthenticated(session) /\ isAuthenticated(session'))
          => transient' = EmptyTransient]_vars

(* ----------------------------- C23 ------------------------------------- *)

\* the dashboard routes
Dashboards == {DashboardPath(role) : role \in Roles}

\* what a response to a sign-in request must leave behind: after a success
\* the session of the response, on the dashboard of its role; otherwise the
\* session as it was and no move to a dashboard
Established(response) ==
  IF response.kind = "success"
  THEN /\ isAuthenticated(session')
       /\ session'.token = response.access_token
       /\ session'.user = response.user
       /\ durable'.token = response.access_token
       /\ location' = DashboardPath(response.user.role)
       /\ view' = DashboardPage(response.user.role)
  ELSE /\ session' = session
       /\ durable' = durable
       /\ location' # location => location' \notin Dashboards

\* C23: in the direct-login flow and in the OTP flow the app navigates to
\* "/{role}-dashboard" with login(token, user) already applied: the guard of
\* the dashboard is evaluated under the authenticated session and renders
\* the dashboard instead of redirecting to "/". When the response is not a
\* success, login is not called and the app does not move to a dashboard.
\* (A response is handled in the steps that take a request off the count of
\* the outstanding ones.)
C23_LoginBeforeDashboard ==
  [][/\ loginReqs' < loginReqs =>
          \A response \in LoginResponses : LoginResponse(response) => Established(response)
     /\ verifyReqs' + verifyOrphans' < verifyReqs + verifyOrphans =>
          \A response \in VerifyResponses :
            (VerifyResponse(response) \/ VerifyOrphanResponse(response))
              => Established(response)]_vars

\* a direct login has put the user on the dashboard (the direct login leaves
\* google_token where it was)
C23_Witness ==
  /\ lastLogin.by = "login"
  /\ ctxOps = "login"
  /\ transient.google_token # Null
  /\ isAuthenticated(session)
  /\ location = DashboardPath(session.user.role)
  /\ view = DashboardPage(session.user.role)

(* ----------------------------- C24 ------------------------------------- *)

\* C24: the guard's redirects never loop. For an authenticated user of any
\* of the three roles every protected route of the route table ends in a
\* rendered page after at most one redirect: the redirect goes to
\* "/{role}-dashboard", a registered route whose allowedRoles contains the
\* role.
C24_RedirectsNeverLoop ==
  (~session.loading /\ isAuthenticated(session) /\ session.user # NoUser) =>
    /\ view # "redirecting"
    /\ \A path \in DOMAIN ProtectedRoutes :
         LET r == Resolve(path, session, MaxRedirects)
         IN /\ r.hops <= 1
            /\ r.location \in DOMAIN ProtectedRoutes
            /\ r.view = ProtectedRoutes[r.location].page
            /\ session.user.role \in ProtectedRoutes[r.location].allowedRoles
            /\ r.hops = 1 => r.location = DashboardPath(session.user.role)

\* an officer on the officer's dashboard, where the routes of the citizen
\* redirect to
C24_Witness ==
  /\ ~session.loading
  /\ isAuthenticated(session)
  /\ session.user # NoUser
  /\ session.user.role = "officer"
  /\ location = "/officer-dashboard"
  /\ view = "OfficerDashboard"
  /\ Resolve("/my-permits", session, MaxRedirects) =
       [location |-> "/officer-dashboard", view |-> "OfficerDashboard", hops |-> 1]

(* ----------------------------- C25 ------------------------------------- *)

\* C25: the Navbar and the route table agree. For each of the three roles
\* the first navigation item (Home, which the logo uses too) is
\* "/{role}-dashboard", and every item whose path is a registered protected
\* route is a route whose allowedRoles contains the role: a Navbar link that
\* is followed renders the page of its route, without a redirect.
C25_NavbarAgreesWithRoutes ==
  /\ \A role \in Roles :
       /\ getNavItems(role)[1] = DashboardPath(role)
       /\ \A i \in DOMAIN getNavItems(role) :
            getNavItems(role)[i] \in DOMAIN ProtectedRoutes
              => role \in ProtectedRoutes[getNavItems(role)[i]].allowedRoles
  /\ (~session.loading /\ view \in NavbarPages /\ isAuthenticated(session)
        /\ session.user # NoUser) =>
       \A i \in DOMAIN getNavItems(session.user.role) :
         LET path == getNavItems(session.user.role)[i]
         IN path \in DOMAIN ProtectedRoutes =>
              Resolve(path, session, MaxRedirects) =
                [location |-> path, view |-> ProtectedRoutes[path].page, hops |-> 0]

\* an officer has followed the Permit Review item
C25_Witness ==
  /\ ~session.loading
  /\ isAuthenticated(session)
  /\ session.user # NoUser
  /\ session.user.role = "officer"
  /\ getNavItems("officer")[2] = location
  /\ view = "PermitReview"

(* ----------------------------- C26 ------------------------------------- *)

\* the OTP page is shown for email, which is what verify_email holds
VerifyingFor(email) ==
  /\ transient'.verify_email = email
  /\ location' = "/verify-otp"
  /\ view' = "OTPVerification"
  /\ otpEmail' = email

\* C26: when the app navigates to "/verify-otp", after a successful
\* registration or after a login response with needs_verification,
\* verify_email already holds the email of the response: the OTP page that is
\* reached does not take its session-expired redirect and verifies against
\* that email.
C26_VerifyEmailBeforeOtpPage ==
  [][\A i \in PendingAccounts :
       transient.google_token = AccountToken(i) =>
         /\ (loginReqs' < loginReqs /\ LoginResponse(NeedsVerification(i)))
              => VerifyingFor(EmailOf(i))
         /\ \A r \in requests \ requests' :
              RegisterResponse(r, [kind |-> "success", email |-> EmailOf(i)])
                => VerifyingFor(EmailOf(i))]_vars

(* ----------------------------- C27 ------------------------------------- *)

\* six cells, each a digit or empty
OtpCells(cells) ==
  /\ Len(cells) = 6
  /\ \A i \in 1..6 : cells[i] \in Digits \cup {""}

\* C27: whatever handleChange, handlePaste, failed submissions and resends
\* have done, otp is an array of six cells that hold a digit or nothing;
\* POST /auth/verify-otp is only sent with a code of six digits; and a failed
\* verification and a successful resend both empty the six cells.
C27_OtpEntry ==
  [][/\ OtpCells(otp')
     /\ verifyReqs' > verifyReqs => (OtpCells(otp) /\ \A i \in 1..6 : otp[i] \in Digits)
     /\ verifyReqs' < verifyReqs =>
          \A response \in VerifyResponses :
            (response.kind # "success" /\ VerifyResponse(response)) => otp' = EmptyOtp
     /\ \A r \in requests \ requests' : ResendResponse(r, TRUE) => otp' = EmptyOtp]_vars

\* the forms with a busy flag: the page, the request of its submit handler
Forms ==
  {[view |-> "RoleSelection", op |-> "RoleSelection.handleSubmit"],
   [view |-> "DronePermitForm", op |-> "DronePermitForm.handleSubmit"],
   [view |-> "PermitReview", op |-> "handleReviewSubmit"],
   [view |-> "VideoAnalysis", op |-> "handleUpload"]}

\* the busy flag of the form that page pg of component v shows
BusyFlag(v, pg) ==
  CASE v = "PermitReview" -> pg.submitting
    [] v = "VideoAnalysis" -> pg.uploading
    [] OTHER -> pg.loading

\* the requests of handler op that the mounted component awaits
Outstanding(op, rs) == {r \in rs : r.op = op /\ r.mounted}

C29_AnalysisOfSelectedVideo ==
  (view = "VideoAnalysis" /\ page.activeTab = "analysis"
     /\ page.selectedVideo # 0 /\ page.analysisData # 0)
    => page.analysisData = page.selectedVideo
\* C30: a status result of the video poll is acted upon (the completed or
\* the failed branch runs) only while the poll of that upload has not been
\* cancelled; as the completed branch cancels the poll, it runs at most once
\* per upload under every interleaving of ticks and status responses.
C30_CompletionHandledOnce ==
  [][\A r \in requests \ requests' :
       (/\ r.op = "pollProcessingStatus"
        /\ toast' \in {"Video processing completed!", "Video processing failed"})
         => Polling(VideoOf(r), timers)]_vars
====
